---------------------------- MODULE Spec2Model ----------------------------
(***************************************************************************)
(* Model of python/tidy.py, the Servo source-tree style checker.           *)
(*                                                                         *)
(* Python byte strings are modelled as sequences of one-character strings, *)
(* so that startswith / endswith / "in" / splitlines / strip are computed  *)
(* on characters as the interpreter computes them.  A finding is a record  *)
(* [line, msg] (the tuple a rule yields); collect_errors_for_files         *)
(* prefixes it with the file name.                                         *)
(***************************************************************************)
EXTENDS Integers, Sequences, FiniteSets, TLC

VARIABLES
    ln_name,      \* by-line harness: file_name handed to the line rules
    ln_contents,  \* by-line harness: raw contents of the file
    ln_pc,        \* by-line harness: position ("license", "by_line", "done")
    ln_license,   \* by-line harness: findings yielded by check_license
    ln_by_line,   \* by-line harness: findings yielded by check_by_line
    lk_name,      \* lock harness: file_name handed to check_lock
    lk_content,   \* lock harness: what toml.loads(contents) gives for the file
    lk_pc,        \* lock harness: position ("check", "done", "raised")
    lk_out,       \* lock harness: findings yielded by check_lock
    rs_name,      \* rust harness: file_name handed to check_rust
    rs_lines,     \* rust harness: the lines of the file
    rs_pc,        \* rust harness: position ("start", "loop", "done")
    rs_idx,       \* rust harness: 0-based index of the next line
    rs_st,        \* rust harness: the local variables of check_rust
    sc_files,     \* scan harness: the files to check, in discovery order
    sc_lint,      \* scan harness: exit status of the WPT lint tool
    sc_pc,        \* scan harness: position ("next", "check", "wpt", "return", "done", "aborted")
    sc_file,      \* scan harness: 1-based index of the file being checked
    sc_check,     \* scan harness: 1-based index in Checks of the rule being applied
    sc_stream,    \* scan harness: the errors scan has printed
    sc_origin,    \* scan harness: per printed error, the file index and rule it came from
    sc_error,     \* scan harness: scan's variable error, <<>> while it is None, else <<error>>
    sc_success,   \* scan harness: whether "tidy reported no errors." was printed
    sc_ret,       \* scan harness: the value scan returned
    sp_name,      \* link harness: file_name handed to check_spec
    sp_lines,     \* link harness: the lines of the file
    sp_pc,        \* link harness: position ("start", "loop", "done")
    sp_idx,       \* link harness: 0-based index of the next line
    sp_st,        \* link harness: the local variables of check_spec
    sp_trace,     \* link harness: per line read, brace_count and in_impl before it
    ff_tree,      \* discovery harness: the paths of the files of the tree
    ff_faster,    \* discovery harness: the flag faster (only changed files)
    ff_pc,        \* discovery harness: position ("list", "filter", "done")
    ff_stack,     \* discovery harness: directories os.walk has yet to visit
    ff_listed,    \* discovery harness: the names get_file_list has yielded
    ff_next,      \* discovery harness: 1-based index of the next name to filter
    ff_yielded    \* discovery harness: the names filter_files has yielded

ln_vars == <<ln_name, ln_contents, ln_pc, ln_license, ln_by_line>>

lk_vars == <<lk_name, lk_content, lk_pc, lk_out>>

rs_vars == <<rs_name, rs_lines, rs_pc, rs_idx, rs_st>>

sc_vars == <<sc_files, sc_lint, sc_pc, sc_file, sc_check, sc_stream, sc_origin, sc_error,
             sc_success, sc_ret>>

sp_vars == <<sp_name, sp_lines, sp_pc, sp_idx, sp_st, sp_trace>>

ff_vars == <<ff_tree, ff_faster, ff_pc, ff_stack, ff_listed, ff_next, ff_yielded>>

vars == <<ln_vars, lk_vars, rs_vars, sc_vars, sp_vars, ff_vars>>

----------------------------------------------------------------------------
(* Bounds of the model.                                                    *)

MaxChunks == 3
MaxPackages == 3
MaxRustLines == 3

MaxFiles == 2

MaxSpecLines == 4

MaxTreeFiles == 3

----------------------------------------------------------------------------
(* Python string primitives.                                               *)

startswith(s, p) == Len(p) <= Len(s) /\ SubSeq(s, 1, Len(p)) = p

endswith(s, p) == Len(p) <= Len(s) /\ SubSeq(s, Len(s) - Len(p) + 1, Len(s)) = p

\* s[p0:] with a 0-based start
SliceFrom(s, p0) == SubSeq(s, p0 + 1, Len(s))

\* "p in s"
Contains(s, p) == \E i \in 0..(Len(s) - Len(p)) : SubSeq(s, i + 1, i + Len(p)) = p

RECURSIVE Join(_)
Join(ss) == IF ss = <<>> THEN <<>> ELSE Head(ss) \o Join(Tail(ss))

\* seq[:n]
Take(ss, n) == SubSeq(ss, 1, IF n < Len(ss) THEN n ELSE Len(ss))

\* str.splitlines(keepends) of a byte string: "\n", "\r" and "\r\n" end a line
\* 1-based positions of the last character of each line terminator
LineEnds(s) ==
    {i \in 1..Len(s) : \/ s[i] = "\n"
                       \/ s[i] = "\r" /\ ~(i < Len(s) /\ s[i + 1] = "\n")}

\* the k-th smallest element of a finite set of integers
Nth(S, k) == CHOOSE x \in S : Cardinality({y \in S : y < x}) = k - 1

\* number of terminator characters ending at position e ("\r\n" counts two)
TermLen(s, e) == IF e > 1 /\ s[e] = "\n" /\ s[e - 1] = "\r" THEN 2 ELSE 1

splitlines(s, keepends) ==
    LET ends == LineEnds(s)
        n == Cardinality(ends)
        last == IF n = 0 THEN 0 ELSE Nth(ends, n)
        start(k) == IF k = 1 THEN 1 ELSE Nth(ends, k - 1) + 1
        full == [k \in 1..n |->
                    SubSeq(s, start(k),
                           IF keepends THEN Nth(ends, k)
                           ELSE Nth(ends, k) - TermLen(s, Nth(ends, k)))]
    IN  IF last < Len(s) THEN Append(full, SubSeq(s, last + 1, Len(s))) ELSE full

\* line.rstrip('\n')
RECURSIVE rstrip_nl(_)
rstrip_nl(s) ==
    IF s # <<>> /\ s[Len(s)] = "\n" THEN rstrip_nl(SubSeq(s, 1, Len(s) - 1)) ELSE s

Max(S) == CHOOSE x \in S : \A y \in S : y <= x

Range(f) == {f[i] : i \in DOMAIN f}

Finding(line, msg) == [line |-> line, msg |-> msg]

\* the characters of the regular-expression class \w
WordChars ==
    {"a", "b", "c", "d", "e", "f", "g", "h", "i", "j", "k", "l", "m",
     "n", "o", "p", "q", "r", "s", "t", "u", "v", "w", "x", "y", "z",
     "A", "B", "C", "D", "E", "F", "G", "H", "I", "J", "K", "L", "M",
     "N", "O", "P", "Q", "R", "S", "T", "U", "V", "W", "X", "Y", "Z",
     "0", "1", "2", "3", "4", "5", "6", "7", "8", "9", "_"}

\* length of the longest run of characters of class cls starting at 1-based i
RunLen(s, i, cls) ==
    IF i > Len(s)
    THEN 0
    ELSE CHOOSE n \in 0..(Len(s) - i + 1) :
             /\ \A k \in i..(i + n - 1) : s[k] \in cls
             /\ (i + n > Len(s) \/ s[i + n] \notin cls)

----------------------------------------------------------------------------
(* File-name extensions.                                                   *)

EXT_TOML == <<".", "t", "o", "m", "l">>
EXT_LOCK == <<".", "l", "o", "c", "k">>
EXT_JSON == <<".", "j", "s", "o", "n">>
EXT_PY == <<".", "p", "y">>
EXT_RS == <<".", "r", "s">>
EXT_WEBIDL == <<".", "w", "e", "b", "i", "d", "l">>

----------------------------------------------------------------------------
(* License rule.                                                           *)

\* licenseck.licenses: the known license texts (a two-line block-comment
\* text and a one-line hash-comment text)
licenses ==
    << <<"/", "*", "M", "\n", "*", "/", "\n">>,
       <<"#", "M", "\n">> >>

EMACS_HEADER == <<"/", "*", " ", "-", "*", "-", " ", "M", "o", "d", "e", ":">>
VIM_HEADER == <<"/", "*", " ", "v", "i", "m", ":">>
XFAIL_LICENSE == <<"x", "f", "a", "i", "l", "-", "l", "i", "c", "e", "n", "s", "e">>

MAX_LICENSE_LINESPAN ==
    Max({Len(splitlines(licenses[i], FALSE)) : i \in DOMAIN licenses})

IsLicenseExempt(file_name) ==
    \E ext \in {EXT_TOML, EXT_LOCK, EXT_JSON} : endswith(file_name, ext)

\* the while loop of check_license: drop the leading editor-mode lines
RECURSIVE StripHeaders(_)
StripHeaders(lines) ==
    IF lines # <<>> /\ (startswith(lines[1], EMACS_HEADER) \/ startswith(lines[1], VIM_HEADER))
    THEN StripHeaders(Tail(lines))
    ELSE lines

LicenseSpanMutant(lines) == Join(Take(lines, MAX_LICENSE_LINESPAN - 1))

LicenseSpan(lines) == Join(Take(lines, MAX_LICENSE_LINESPAN))

check_license(file_name, lines0) ==
    IF IsLicenseExempt(file_name)
    THEN <<>>
    ELSE LET lines == StripHeaders(lines0)
             contents == LicenseSpan(lines)
             valid_license == \E i \in DOMAIN licenses : startswith(contents, licenses[i])
             acknowledged_bad_license == Contains(contents, XFAIL_LICENSE)
         IN  IF ~(valid_license \/ acknowledged_bad_license)
             THEN <<Finding(1, "incorrect license")>>
             ELSE <<>>

----------------------------------------------------------------------------
(* Per-line rules.                                                         *)

max_length == 120

check_length_lock_only(file_name, idx, line) ==
    IF endswith(file_name, EXT_LOCK)
    THEN <<>>
    ELSE IF Len(rstrip_nl(line)) > max_length
         THEN <<Finding(idx + 1, "Line is longer than 120 characters")>>
         ELSE <<>>

check_length(file_name, idx, line) ==
    IF endswith(file_name, EXT_LOCK) \/ endswith(file_name, EXT_JSON)
    THEN <<>>
    ELSE IF Len(rstrip_nl(line)) > max_length
         THEN <<Finding(idx + 1, "Line is longer than 120 characters")>>
         ELSE <<>>

WHATWG_MULTIPAGE ==
    <<"h", "t", "t", "p", "s", ":", "/", "/", "h", "t", "m", "l", ".", "s", "p", "e", "c", ".",
      "w", "h", "a", "t", "w", "g", ".", "o", "r", "g", "/", "m", "u", "l", "t", "i", "p", "a",
      "g", "e", "/">>
WHATWG_SINGLE ==
    <<"h", "t", "t", "p", "s", ":", "/", "/", "h", "t", "m", "l", ".", "s", "p", "e", "c", ".",
      "w", "h", "a", "t", "w", "g", ".", "o", "r", "g", "/", "#">>
DOT_HTML_HASH == <<".", "h", "t", "m", "l", "#">>

\* re.search(r"https://html\.spec\.whatwg\.org/multipage/[\w-]+\.html#([\w\:-]+)", line)
check_whatwg_specific_url(idx, line) ==
    IF \E i \in 0..Len(line) :
          /\ startswith(SliceFrom(line, i), WHATWG_MULTIPAGE)
          /\ LET p == i + Len(WHATWG_MULTIPAGE) + 1
                 n == RunLen(line, p, WordChars \cup {"-"})
             IN  /\ n >= 1
                 /\ startswith(SliceFrom(line, p + n - 1), DOT_HTML_HASH)
                 /\ RunLen(line, p + n + Len(DOT_HTML_HASH), WordChars \cup {":", "-"}) >= 1
    THEN <<Finding(idx + 1, "link to WHATWG may break in the future, use this format instead")>>
    ELSE <<>>

\* re.search(r"https://html\.spec\.whatwg\.org/#([\w\:-]+)", line)
check_whatwg_single_page_url(idx, line) ==
    IF \E i \in 0..Len(line) :
          /\ startswith(SliceFrom(line, i), WHATWG_SINGLE)
          /\ RunLen(line, i + Len(WHATWG_SINGLE) + 1, WordChars \cup {":", "-"}) >= 1
    THEN <<Finding(idx + 1, "links to WHATWG single-page url, change to multi page")>>
    ELSE <<>>

check_whitespace(idx, line0) ==
    LET has_nl == line0[Len(line0)] = "\n"
        line == IF has_nl THEN SubSeq(line0, 1, Len(line0) - 1) ELSE line0
    IN  (IF has_nl THEN <<>> ELSE <<Finding(idx + 1, "no newline at EOF")>>)
        \o (IF endswith(line, <<" ">>) THEN <<Finding(idx + 1, "trailing whitespace")>> ELSE <<>>)
        \o (IF Contains(line, <<"\t">>) THEN <<Finding(idx + 1, "tab on line")>> ELSE <<>>)
        \o (IF Contains(line, <<"\r">>) THEN <<Finding(idx + 1, "CR on line")>> ELSE <<>>)

\* the chain of the four per-line rules for the line at 0-based idx
ByLineErrors(file_name, idx, line) ==
    check_length(file_name, idx, line)
        \o check_whitespace(idx, line)
        \o check_whatwg_specific_url(idx, line)
        \o check_whatwg_single_page_url(idx, line)

RECURSIVE ByLineFrom(_, _, _)
ByLineFrom(file_name, lines, idx) ==
    IF idx >= Len(lines)
    THEN <<>>
    ELSE ByLineErrors(file_name, idx, lines[idx + 1]) \o ByLineFrom(file_name, lines, idx + 1)

check_by_line(file_name, lines) == ByLineFrom(file_name, lines, 0)

----------------------------------------------------------------------------
(* Dependency-lock rule.                                                   *)

\* the grave accent character (chr(96)), which a TLA+ string cannot hold
GRAVE == "grave"

\* ord() of the characters byte strings are made of
Ord ==
    "\t" :> 9 @@ "\n" :> 10 @@ "\r" :> 13 @@ " " :> 32 @@ "!" :> 33 @@ "\"" :> 34 @@
    "#" :> 35 @@ "$" :> 36 @@ "%" :> 37 @@ "&" :> 38 @@ "'" :> 39 @@ "(" :> 40 @@
    ")" :> 41 @@ "*" :> 42 @@ "+" :> 43 @@ "," :> 44 @@ "-" :> 45 @@ "." :> 46 @@
    "/" :> 47 @@ "0" :> 48 @@ "1" :> 49 @@ "2" :> 50 @@ "3" :> 51 @@ "4" :> 52 @@
    "5" :> 53 @@ "6" :> 54 @@ "7" :> 55 @@ "8" :> 56 @@ "9" :> 57 @@ ":" :> 58 @@
    ";" :> 59 @@ "<" :> 60 @@ "=" :> 61 @@ ">" :> 62 @@ "?" :> 63 @@ "@" :> 64 @@
    "A" :> 65 @@ "B" :> 66 @@ "C" :> 67 @@ "D" :> 68 @@ "E" :> 69 @@ "F" :> 70 @@
    "G" :> 71 @@ "H" :> 72 @@ "I" :> 73 @@ "J" :> 74 @@ "K" :> 75 @@ "L" :> 76 @@
    "M" :> 77 @@ "N" :> 78 @@ "O" :> 79 @@ "P" :> 80 @@ "Q" :> 81 @@ "R" :> 82 @@
    "S" :> 83 @@ "T" :> 84 @@ "U" :> 85 @@ "V" :> 86 @@ "W" :> 87 @@ "X" :> 88 @@
    "Y" :> 89 @@ "Z" :> 90 @@ "[" :> 91 @@ "\\" :> 92 @@ "]" :> 93 @@ "^" :> 94 @@
    "_" :> 95 @@ GRAVE :> 96 @@ "a" :> 97 @@ "b" :> 98 @@ "c" :> 99 @@ "d" :> 100 @@
    "e" :> 101 @@ "f" :> 102 @@ "g" :> 103 @@ "h" :> 104 @@ "i" :> 105 @@ "j" :> 106 @@
    "k" :> 107 @@ "l" :> 108 @@ "m" :> 109 @@ "n" :> 110 @@ "o" :> 111 @@ "p" :> 112 @@
    "q" :> 113 @@ "r" :> 114 @@ "s" :> 115 @@ "t" :> 116 @@ "u" :> 117 @@ "v" :> 118 @@
    "w" :> 119 @@ "x" :> 120 @@ "y" :> 121 @@ "z" :> 122 @@ "{" :> 123 @@ "|" :> 124 @@
    "}" :> 125 @@ "~" :> 126

\* a < b on Python byte strings
RECURSIVE StrLess(_, _)
StrLess(a, b) ==
    IF b = <<>> THEN FALSE
    ELSE IF a = <<>> THEN TRUE
    ELSE IF a[1] # b[1] THEN Ord[a[1]] < Ord[b[1]]
    ELSE StrLess(Tail(a), Tail(b))

\* max(versions): the first element no later element exceeds
RECURSIVE PyMaxFrom(_, _, _)
PyMaxFrom(versions, i, best) ==
    IF i > Len(versions) THEN best
    ELSE PyMaxFrom(versions, i + 1, IF StrLess(best, versions[i]) THEN versions[i] ELSE best)

highest_first(versions) == versions[1]

highest_of(versions) == PyMaxFrom(versions, 2, versions[1])

\* package names to be neglected (as named by cargo)
exceptions ==
    { <<"b", "i", "t", "f", "l", "a", "g", "s">>,
      <<"x", "m", "l", "-", "r", "s">>,
      <<"g", "l", "_", "g", "e", "n", "e", "r", "a", "t", "o", "r">> }

\* what toml.loads gives for contents it cannot parse: the exception it raises
TomlDecodeError == [error |-> "TomlDecodeError"]

IsParsed(content) == "error" \notin DOMAIN content

\* "{} {}".format(dependency, version)
DependencyPrefix(dependency, version) == dependency \o <<" ">> \o version

\* names yielded for one package: one per matching entry of its dependencies
RECURSIVE MatchesIn(_, _, _)
MatchesIn(package, deps, dependency_prefix) ==
    IF deps = <<>> THEN <<>>
    ELSE (IF startswith(Head(deps), dependency_prefix) THEN <<package.name>> ELSE <<>>)
             \o MatchesIn(package, Tail(deps), dependency_prefix)

RECURSIVE ReverseFrom(_, _)
ReverseFrom(packages, dependency_prefix) ==
    IF packages = <<>> THEN <<>>
    ELSE MatchesIn(Head(packages), Head(packages).dependencies, dependency_prefix)
             \o ReverseFrom(Tail(packages), dependency_prefix)

find_reverse_dependencies(dependency, version, content) ==
    ReverseFrom(<<content.root>> \o content.package, DependencyPrefix(dependency, version))

LockFinding(name, version, highest, reverse_dependencies) ==
    [line |-> 1, msg |-> "duplicate versions for package", package |-> name,
     old_version |-> version, new_version |-> highest,
     reverse_dependencies |-> reverse_dependencies]

\* packages[name]: the versions of the entries called name, in manifest order
VersionsOf(content, name) ==
    LET entries == SelectSeq(content.package, LAMBDA p : p.name = name)
    IN  [i \in 1..Len(entries) |-> entries[i].version]

PackageNames(content) == {content.package[i].name : i \in DOMAIN content.package}

\* the inner loop over the versions of one name
RECURSIVE LockVersionsFrom(_, _, _, _, _)
LockVersionsFrom(content, name, versions, i, highest) ==
    IF i > Len(versions) THEN <<>>
    ELSE (IF versions[i] # highest
          THEN <<LockFinding(name, versions[i], highest,
                             find_reverse_dependencies(name, versions[i], content))>>
          ELSE <<>>)
             \o LockVersionsFrom(content, name, versions, i + 1, highest)

LockForName(content, name) ==
    LET versions == VersionsOf(content, name)
    IN  IF name \in exceptions \/ Len(versions) <= 1
        THEN <<>>
        ELSE LockVersionsFrom(content, name, versions, 1, highest_of(versions))

\* the outer loop, in the order packages.iteritems() hands the names out
RECURSIVE LockNamesFrom(_, _)
LockNamesFrom(content, order) ==
    IF order = <<>> THEN <<>>
    ELSE LockForName(content, Head(order)) \o LockNamesFrom(content, Tail(order))

\* the orders a dictionary can iterate a set of keys in
IterOrders(keys) ==
    {o \in [1..Cardinality(keys) -> keys] : \A i, j \in DOMAIN o : i # j => o[i] # o[j]}

\* [out: the findings yielded, raised: whether the generator ends in an exception]
check_lock(file_name, content, order) ==
    IF ~endswith(file_name, EXT_LOCK)
    THEN [out |-> <<>>, raised |-> FALSE]
    ELSE IF ~IsParsed(content)
         THEN [out |-> <<>>, raised |-> TRUE]
         ELSE [out |-> LockNamesFrom(content, order), raised |-> FALSE]

----------------------------------------------------------------------------
(* Rust rule: string primitives and the per-line preprocessing.           *)

Whitespace == {" ", "\t", "\n", "\r"}

Letters ==
    {"a", "b", "c", "d", "e", "f", "g", "h", "i", "j", "k", "l", "m",
     "n", "o", "p", "q", "r", "s", "t", "u", "v", "w", "x", "y", "z",
     "A", "B", "C", "D", "E", "F", "G", "H", "I", "J", "K", "L", "M",
     "N", "O", "P", "Q", "R", "S", "T", "U", "V", "W", "X", "Y", "Z"}

Digits == {"0", "1", "2", "3", "4", "5", "6", "7", "8", "9"}

\* line.strip()
strip(s) ==
    LET keep == {i \in 1..Len(s) : s[i] \notin Whitespace}
    IN  IF keep = {} THEN <<>>
        ELSE SubSeq(s, CHOOSE i \in keep : \A j \in keep : i <= j,
                       CHOOSE i \in keep : \A j \in keep : j <= i)

\* line.count(p) for a two-character pattern that cannot overlap itself
count(s, p) == Cardinality({i \in 1..(Len(s) - 1) : SubSeq(s, i, i + 1) = p})

\* s[a:-1]
SliceInner(s, a) == SubSeq(s, a + 1, Len(s) - 1)

\* re.search(r"#\[.*\]", line)
line_is_attribute(line) ==
    \E i \in 1..(Len(line) - 1) :
        /\ SubSeq(line, i, i + 1) = <<"#", "[">>
        /\ \E j \in (i + 2)..Len(line) : line[j] = "]"

\* re.search(r"^//|^/\*|^\*", line)
line_is_comment(line) ==
    \/ startswith(line, <<"/", "/">>)
    \/ startswith(line, <<"/", "*">>)
    \/ startswith(line, <<"*">>)

\* 1-based position of the quote closing a literal opened before position i
\* (0 when the literal is not closed): (\\.|[^\\q])*? followed by q
RECURSIVE LiteralEnd(_, _, _)
LiteralEnd(s, i, quote) ==
    IF i > Len(s) THEN 0
    ELSE IF s[i] = quote THEN i
    ELSE IF s[i] = "\\" THEN (IF i + 1 > Len(s) THEN 0 ELSE LiteralEnd(s, i + 2, quote))
    ELSE LiteralEnd(s, i + 1, quote)

\* re.sub(r'"(\\.|[^\\"])*?"|' + r"'(\\.|[^\\'])*?'", '', line)
RECURSIVE RemoveLiteralsFrom(_, _)
RemoveLiteralsFrom(s, i) ==
    IF i > Len(s) THEN <<>>
    ELSE IF s[i] \in {"\"", "'"} /\ LiteralEnd(s, i + 1, s[i]) # 0
         THEN RemoveLiteralsFrom(s, LiteralEnd(s, i + 1, s[i]) + 1)
         ELSE <<s[i]>> \o RemoveLiteralsFrom(s, i + 1)

RemoveLiterals(s) == RemoveLiteralsFrom(s, 1)

\* re.sub('//.*?$|/\*.*?$|^\*.*?$', '', line)
RemoveComments(s) ==
    LET starts == {i \in 1..Len(s) :
                      \/ i < Len(s) /\ SubSeq(s, i, i + 1) \in {<<"/", "/">>, <<"/", "*">>}
                      \/ i = 1 /\ s[1] = "*"}
    IN  IF starts = {} THEN s
        ELSE SubSeq(s, 1, (CHOOSE i \in starts : \A j \in starts : i <= j) - 1)

\* re.sub('^#[A-Za-z0-9\(\)\[\]_]*?$', '', line)
RemoveBareAttribute(s) ==
    IF /\ s # <<>>
       /\ s[1] = "#"
       /\ \A i \in 2..Len(s) : s[i] \in Letters \cup Digits \cup {"(", ")", "[", "]", "_"}
    THEN <<>>
    ELSE s

\* lines 313-321: the line the rules below are applied to
Simplify(line) ==
    RemoveBareAttribute(RemoveComments(
        IF line_is_attribute(line) THEN line ELSE RemoveLiterals(line)))

----------------------------------------------------------------------------
(* Rust rule: the table of spacing rules (regex_rules).                    *)

Alnum == Letters \cup Digits

\* one position of a pattern: a character class or its complement
In(set) == [neg |-> FALSE, set |-> set]
NotIn(set) == [neg |-> TRUE, set |-> set]
Lit(s) == [i \in 1..Len(s) |-> In({s[i]})]

ClassMatches(c, el) == (c \in el.set) # el.neg

\* whether the fixed-length pattern matches at 0-based position p
MatchesAt(line, pat, p) ==
    /\ p + Len(pat) <= Len(line)
    /\ \A k \in 1..Len(pat) : ClassMatches(line[p + k], pat[k])

\* re.finditer: 0-based starts of the leftmost non-overlapping matches
RECURSIVE FindIter(_, _, _)
FindIter(line, pat, p) ==
    IF p + Len(pat) > Len(line) THEN <<>>
    ELSE IF MatchesAt(line, pat, p)
         THEN <<p>> \o FindIter(line, pat, p + Len(pat))
         ELSE FindIter(line, pat, p + 1)

\* "sub in s": 0-based s.find(sub) and s.rfind(sub), -1 when absent
find(s, sub) ==
    LET at == {i \in 0..(Len(s) - Len(sub)) : SubSeq(s, i + 1, i + Len(sub)) = sub}
    IN  IF at = {} THEN -1 ELSE CHOOSE i \in at : \A j \in at : i <= j

rfind(s, sub) ==
    LET at == {i \in 0..(Len(s) - Len(sub)) : SubSeq(s, i + 1, i + Len(sub)) = sub}
    IN  IF at = {} THEN -1 ELSE CHOOSE i \in at : \A j \in at : j <= i

\* Avoid flagging <Item=Foo> constructs
is_associated_type(group1, start, end, line) ==
    IF group1 # "=" THEN FALSE
    ELSE LET open_angle == rfind(SubSeq(line, 1, end), <<"<">>)
             close_angle == IF open_angle # -1 THEN find(SliceFrom(line, open_angle), <<">">>) ELSE -1
             generic_open == open_angle # -1 /\ open_angle < start
             generic_close == close_angle # -1 /\ close_angle + open_angle >= end
         IN  generic_open /\ generic_close

USE_KW == <<"u", "s", "e", " ">>
PUB_USE == <<"p", "u", "b", " ", "u", "s", "e">>
TRAIT_KW == <<"t", "r", "a", "i", "t", " ">>

\* (pattern, message, group, filter): group is the position in the match of
\* the character the message is formatted with, 0 when there is none
regex_rules ==
    << [pat |-> <<In({","}), NotIn(Whitespace)>>, msg |-> "missing space after ,",
        group |-> 0, filter |-> "no_dollar"],
       [pat |-> <<In(Alnum \cup {"\""}), In({"="})>>, msg |-> "missing space before =",
        group |-> 0, filter |-> "attribute"],
       [pat |-> <<In({"="}), In(Alnum \cup {"\""})>>, msg |-> "missing space after =",
        group |-> 0, filter |-> "attribute"],
       [pat |-> <<In(Alnum \ {"E", "e"}), In({"-"})>>, msg |-> "missing space before -",
        group |-> 0, filter |-> "not_attribute"],
       [pat |-> <<In(Alnum), In({"+", "/", "*", "%", "="})>>, msg |-> "missing space before {0}",
        group |-> 2, filter |-> "not_attribute_nor_associated"],
       [pat |-> <<In({"+", "/", "%", "="}), In(Alnum \cup {"\""})>>, msg |-> "missing space after {0}",
        group |-> 1, filter |-> "not_attribute_nor_associated"],
       [pat |-> Lit(<<")", "-", ">">>), msg |-> "missing space before ->",
        group |-> 0, filter |-> "no_filter"],
       [pat |-> <<In({"-"}), In({">"}), In(Letters)>>, msg |-> "missing space after ->",
        group |-> 0, filter |-> "no_filter"],
       [pat |-> <<NotIn({" "}), In({"="}), In({">"})>>, msg |-> "missing space before =>",
        group |-> 0, filter |-> "start_not_0"],
       [pat |-> <<In({"="}), In({">"}), NotIn({" "})>>, msg |-> "missing space after =>",
        group |-> 0, filter |-> "end_not_len"],
       [pat |-> Lit(<<"=", ">", " ", " ">>), msg |-> "extra space after =>",
        group |-> 0, filter |-> "no_filter"],
       [pat |-> <<In({" "}), In({":"}), NotIn({":"})>>, msg |-> "extra space before :",
        group |-> 0, filter |-> "no_trait_before"],
       [pat |-> <<NotIn({":"}), In({":"}), In(Letters)>>, msg |-> "missing space after :",
        group |-> 0, filter |-> "no_dollar_before"],
       [pat |-> <<In(Alnum \cup {")"}), In({"{"})>>, msg |-> "missing space before {",
        group |-> 0, filter |-> "no_filter"],
       [pat |-> <<NotIn(Whitespace \cup {"{", "}"}), In({"}"}), NotIn({GRAVE})>>,
        msg |-> "missing space before }", group |-> 0, filter |-> "not_use"],
       [pat |-> <<NotIn({GRAVE}), In({"{"}), NotIn(Whitespace \cup {"{", "}"})>>,
        msg |-> "missing space after {", group |-> 0, filter |-> "not_use"],
       [pat |-> Lit(<<":", " ", "&", "V", "e", "c", "<">>), msg |-> "use &[T] instead of &Vec<T>",
        group |-> 0, filter |-> "no_filter"],
       [pat |-> Lit(<<":", " ", "&", "S", "t", "r", "i", "n", "g">>), msg |-> "use &str instead of &String",
        group |-> 0, filter |-> "no_filter"] >>

\* filter_func(match, line) of a rule, for the match at 0-based [start, end)
filter_func(rule, start, line) ==
    LET end == start + Len(rule.pat)
        group1 == IF rule.group = 0 THEN "" ELSE line[start + rule.group]
    IN  CASE rule.filter = "no_filter" -> TRUE
          [] rule.filter = "no_dollar" -> ~Contains(line, <<"$">>)
          [] rule.filter = "attribute" -> line_is_attribute(line)
          [] rule.filter = "not_attribute" -> ~line_is_attribute(line)
          [] rule.filter = "not_attribute_nor_associated" ->
                 ~line_is_attribute(line) /\ ~is_associated_type(group1, start, end, line)
          [] rule.filter = "start_not_0" -> start # 0
          [] rule.filter = "end_not_len" -> end # Len(line)
          [] rule.filter = "no_trait_before" -> ~Contains(SubSeq(line, 1, start), TRAIT_KW)
          [] rule.filter = "no_dollar_before" -> ~Contains(SubSeq(line, 1, end), <<"$">>)
          [] rule.filter = "not_use" -> ~(startswith(line, USE_KW) \/ startswith(line, PUB_USE))

SpacingFinding(idx, rule, start, line) ==
    [line |-> idx + 1, msg |-> rule.msg,
     arg |-> IF rule.group = 0 THEN "" ELSE line[start + rule.group]]

RECURSIVE MatchFindings(_, _, _, _)
MatchFindings(idx, rule, starts, line) ==
    IF starts = <<>> THEN <<>>
    ELSE (IF filter_func(rule, Head(starts), line)
          THEN <<SpacingFinding(idx, rule, Head(starts), line)>>
          ELSE <<>>)
             \o MatchFindings(idx, rule, Tail(starts), line)

RECURSIVE RulesFrom(_, _, _)
RulesFrom(idx, line, r) ==
    IF r > Len(regex_rules) THEN <<>>
    ELSE MatchFindings(idx, regex_rules[r], FindIter(line, regex_rules[r].pat, 0), line)
             \o RulesFrom(idx, line, r + 1)

\* lines 367-372
SpacingFindings(idx, line) == RulesFrom(idx, line, 1)

----------------------------------------------------------------------------
(* Rust rule: the loop body of check_rust.                                 *)

EXTERN_CRATE == <<"e", "x", "t", "e", "r", "n", " ", "c", "r", "a", "t", "e", " ">>
USE_SP == <<"u", "s", "e", " ">>
MOD_SP == <<"m", "o", "d", " ">>
PUB_MOD_SP == <<"p", "u", "b", " ", "m", "o", "d", " ">>
MACRO_USE == <<"#", "[", "m", "a", "c", "r", "o", "_", "u", "s", "e", "]">>
PROPERTIES_MAKO_RS == <<"p", "r", "o", "p", "e", "r", "t", "i", "e", "s", ".", "m", "a", "k", "o", ".", "r", "s">>
STYLE_BUILD_RS == <<"s", "t", "y", "l", "e", "/", "b", "u", "i", "l", "d", ".", "r", "s">>
GECKOLIB_BUILD_RS == <<"g", "e", "c", "k", "o", "l", "i", "b", "/", "b", "u", "i", "l", "d", ".", "r", "s">>
STYLESHEETS_RS == <<"u", "n", "i", "t", "/", "s", "t", "y", "l", "e", "/", "s", "t", "y", "l", "e", "s", "h", "e", "e", "t", "s", ".", "r", "s">>

EmptyDict == [k \in {} |-> <<>>]

\* the local variables of check_rust before the loop (prev_use None is the
\* empty string: the code only tests its truth), with the findings yielded
\* so far and, for each line read, what became of it
RustInit ==
    [comment_depth |-> 0, merged_lines |-> <<>>, import_block |-> FALSE,
     whitespace |-> FALSE, prev_use |-> <<>>, current_indent |-> 0,
     prev_crate |-> EmptyDict, prev_mod |-> EmptyDict, out |-> <<>>, trace |-> <<>>]

Skipped == [skipped |-> TRUE, merged |-> <<>>, line |-> <<>>, indent |-> 0]

OrderFindingSwapped(lineno, kind, expected, found) ==
    [line |-> lineno, msg |-> "is not in alphabetical order", kind |-> kind,
     expected |-> found, found |-> expected]

\* decl_message + decl_expected + decl_found (lines 280-282)
OrderFinding(lineno, kind, expected, found) ==
    [line |-> lineno, msg |-> "is not in alphabetical order", kind |-> kind,
     expected |-> expected, found |-> found]

DictGet(d, k) == IF k \in DOMAIN d THEN d[k] ELSE <<>>

GapAnchorMutant(idx) == idx + 1

\* line 409: the finding is anchored at idx, the 1-based number of the line before
GapAnchor(idx) == idx

UseOrderMutant(indent, current_indent, prev_use, current_use) ==
    indent = current_indent /\ prev_use # <<>> /\ ~StrLess(prev_use, current_use)

\* line 396
UseOutOfOrder(indent, current_indent, prev_use, current_use) ==
    indent = current_indent /\ prev_use # <<>> /\ StrLess(current_use, prev_use)

\* lines 303-430, for a line that is neither continued nor inside a comment
RustAnalyse(st, idx, lines, merged) ==
    LET original_line == lines[idx + 1]
        interrupts == /\ st.import_block
                      /\ ~(line_is_comment(merged) \/ line_is_attribute(merged)
                              \/ startswith(merged, USE_SP))
        whitespace1 == IF interrupts THEN merged = <<>> ELSE st.whitespace
        import_block1 == IF interrupts /\ ~whitespace1 THEN FALSE ELSE st.import_block
        line == Simplify(merged)
        indent == Len(original_line) - Len(line)
        \* extern crate
        is_crate == startswith(line, EXTERN_CRATE)
        crate_name == SliceInner(line, 13)
        prev_c == DictGet(st.prev_crate, indent)
        crate_out == IF is_crate /\ StrLess(crate_name, prev_c)
                     THEN <<OrderFinding(idx + 1, "extern crate declaration", prev_c, crate_name)>>
                     ELSE <<>>
        prev_crate1 == IF is_crate THEN (indent :> crate_name) @@ st.prev_crate
                       ELSE st.prev_crate
        \* use
        is_use == startswith(line, USE_SP)
        import_block2 == import_block1 \/ is_use
        span_out == IF is_use /\ ~endswith(line, <<";">>) /\ Contains(line, <<"{">>)
                    THEN <<Finding(idx + 1, "use statement spans multiple lines")>>
                    ELSE <<>>
        current_use == SliceInner(line, 4)
        use_out == IF is_use /\ UseOutOfOrder(indent, st.current_indent, st.prev_use, current_use)
                   THEN <<OrderFinding(idx + 1, "use statement", st.prev_use, current_use)>>
                   ELSE <<>>
        prev_use1 == IF is_use THEN current_use ELSE st.prev_use
        current_indent1 == IF is_use THEN indent ELSE st.current_indent
        current_indent2 == IF whitespace1 \/ ~import_block2 THEN 0 ELSE current_indent1
        \* blank lines in an import block
        gap == import_block2 /\ whitespace1 /\ is_use
        gap_out == IF gap
                   THEN <<Finding(GapAnchor(idx),
                                  "encountered whitespace following a use statement")>>
                   ELSE <<>>
        \* mod
        is_mod == startswith(line, MOD_SP) \/ startswith(line, PUB_MOD_SP)
        mod == IF startswith(line, MOD_SP) THEN SliceInner(line, 4) ELSE SliceInner(line, 8)
        checked == (idx - 1) < 0 \/ ~Contains(lines[idx], MACRO_USE)
        prev_m == DictGet(st.prev_mod, indent)
        mod_span == IF is_mod /\ checked /\ find(line, <<" ", "{">>) = -1 /\ ~endswith(line, <<";">>)
                    THEN <<Finding(idx + 1, "mod declaration spans multiple lines")>>
                    ELSE <<>>
        mod_out == IF is_mod /\ checked /\ Len(prev_m) > 0 /\ StrLess(mod, prev_m)
                   THEN <<OrderFinding(idx + 1, "mod declaration", prev_m, mod)>>
                   ELSE <<>>
        prev_mod1 == IF ~is_mod THEN EmptyDict
                     ELSE IF checked THEN (indent :> mod) @@ st.prev_mod
                     ELSE st.prev_mod
    IN  [comment_depth |-> 0,
         merged_lines |-> <<>>,
         import_block |-> import_block2,
         whitespace |-> IF gap THEN FALSE ELSE whitespace1,
         prev_use |-> prev_use1,
         current_indent |-> current_indent2,
         prev_crate |-> prev_crate1,
         prev_mod |-> prev_mod1,
         out |-> st.out \o SpacingFindings(idx, line) \o crate_out \o span_out \o use_out
                     \o gap_out \o mod_span \o mod_out,
         trace |-> Append(st.trace,
                          [skipped |-> FALSE, merged |-> merged, line |-> line, indent |-> indent])]

\* lines 284-430: one iteration of the loop, for the line at 0-based idx
rust_line(st, idx, lines) ==
    LET line == strip(lines[idx + 1])
        depth == IF Contains(line, <<"/">>)
                 THEN st.comment_depth + count(line, <<"/", "*">>) - count(line, <<"*", "/">>)
                 ELSE st.comment_depth
    IN  IF endswith(line, <<"\\">>)
        THEN [st EXCEPT !.comment_depth = depth,
                        !.merged_lines = @ \o SubSeq(line, 1, Len(line) - 1),
                        !.trace = Append(@, Skipped)]
        ELSE IF depth # 0
             THEN [st EXCEPT !.comment_depth = depth,
                             !.merged_lines = @ \o line,
                             !.trace = Append(@, Skipped)]
             ELSE RustAnalyse([st EXCEPT !.comment_depth = depth], idx, lines,
                              st.merged_lines \o line)

\* lines 263-268
RustInapplicable(file_name) ==
    \/ ~endswith(file_name, EXT_RS)
    \/ endswith(file_name, PROPERTIES_MAKO_RS)
    \/ endswith(file_name, STYLE_BUILD_RS)
    \/ endswith(file_name, GECKOLIB_BUILD_RS)
    \/ endswith(file_name, STYLESHEETS_RS)

RECURSIVE RustFrom(_, _, _)
RustFrom(st, idx, lines) ==
    IF idx >= Len(lines) THEN st ELSE RustFrom(rust_line(st, idx, lines), idx + 1, lines)

check_rust(file_name, lines) ==
    IF RustInapplicable(file_name) THEN <<>> ELSE RustFrom(RustInit, 0, lines).out

----------------------------------------------------------------------------
(* The remaining whole-file and line rules.                                *)

\* check_flake8: output is what flake8's check_code prints for the contents
\* (W291 and E501 ignored), one [line, msg] per "file:line:col: message"
check_flake8(file_name, output) ==
    IF ~endswith(file_name, EXT_PY) THEN <<>> ELSE output

standards ==
    << <<"/", "/", "w", "w", "w", ".", "k", "h", "r", "o", "n", "o", "s", ".", "o", "r", "g", "/",
         "r", "e", "g", "i", "s", "t", "r", "y", "/", "w", "e", "b", "g", "l", "/", "s", "p", "e",
         "c", "s">>,
       <<"/", "/", "d", "e", "v", "e", "l", "o", "p", "e", "r", ".", "m", "o", "z", "i", "l", "l",
         "a", ".", "o", "r", "g", "/", "e", "n", "-", "U", "S", "/", "d", "o", "c", "s", "/", "W",
         "e", "b", "/", "A", "P", "I">>,
       <<"/", "/", "d", "e", "v", ".", "w", "3", ".", "o", "r", "g", "/", "2", "0", "0", "6", "/",
         "w", "e", "b", "a", "p", "i">>,
       <<"/", "/", "d", "e", "v", ".", "w", "3", ".", "o", "r", "g", "/", "c", "s", "s", "w", "g">>,
       <<"/", "/", "d", "e", "v", ".", "w", "3", ".", "o", "r", "g", "/", "f", "x", "t", "f">>,
       <<"/", "/", "d", "v", "c", "s", ".", "w", "3", ".", "o", "r", "g", "/", "h", "g">>,
       <<"/", "/", "d", "o", "m", ".", "s", "p", "e", "c", ".", "w", "h", "a", "t", "w", "g", ".",
         "o", "r", "g">>,
       <<"/", "/", "d", "o", "m", "p", "a", "r", "s", "i", "n", "g", ".", "s", "p", "e", "c", ".",
         "w", "h", "a", "t", "w", "g", ".", "o", "r", "g">>,
       <<"/", "/", "d", "r", "a", "f", "t", "s", ".", "c", "s", "s", "w", "g", ".", "o", "r", "g",
         "/", "c", "s", "s", "o", "m">>,
       <<"/", "/", "d", "r", "a", "f", "t", "s", ".", "f", "x", "t", "f", ".", "o", "r", "g">>,
       <<"/", "/", "e", "n", "c", "o", "d", "i", "n", "g", ".", "s", "p", "e", "c", ".", "w", "h",
         "a", "t", "w", "g", ".", "o", "r", "g">>,
       <<"/", "/", "h", "t", "m", "l", ".", "s", "p", "e", "c", ".", "w", "h", "a", "t", "w", "g",
         ".", "o", "r", "g">>,
       <<"/", "/", "u", "r", "l", ".", "s", "p", "e", "c", ".", "w", "h", "a", "t", "w", "g", ".",
         "o", "r", "g">>,
       <<"/", "/", "x", "h", "r", ".", "s", "p", "e", "c", ".", "w", "h", "a", "t", "w", "g", ".",
         "o", "r", "g">>,
       <<"/", "/", "w", "3", "c", ".", "g", "i", "t", "h", "u", "b", ".", "i", "o">>,
       <<"/", "/", "h", "e", "y", "c", "a", "m", ".", "g", "i", "t", "h", "u", "b", ".", "i", "o",
         "/", "w", "e", "b", "i", "d", "l">>,
       <<"/", "/", "w", "e", "b", "b", "l", "u", "e", "t", "o", "o", "t", "h", "c", "g", ".", "g",
         "i", "t", "h", "u", "b", ".", "i", "o", "/", "w", "e", "b", "-", "b", "l", "u", "e", "t",
         "o", "o", "t", "h", "/">>,
       <<"/", "/", " ", "T", "h", "i", "s", " ", "i", "n", "t", "e", "r", "f", "a", "c", "e", " ",
         "i", "s", " ", "e", "n", "t", "i", "r", "e", "l", "y", " ", "i", "n", "t", "e", "r", "n",
         "a", "l", " ", "t", "o", " ", "S", "e", "r", "v", "o", ",", " ", "a", "n", "d", " ", "s",
         "h", "o", "u", "l", "d", " ", "n", "o", "t", " ", "b", "e", " ", "a", "c", "c", "e", "s",
         "s", "i", "b", "l", "e", " ", "t", "o", "\n", "/", "/", " ", "w", "e", "b", " ", "p", "a",
         "g", "e", "s", ".">> >>

check_webidl_spec(file_name, contents) ==
    IF ~endswith(file_name, EXT_WEBIDL) THEN <<>>
    ELSE IF \E i \in DOMAIN standards : Contains(contents, standards[i]) THEN <<>>
    ELSE <<Finding(0, "No specification link found.")>>

LINE_SP == <<"l", "i", "n", "e", " ">>

\* Python's None, distinct from every byte string
None == "None"

\* match and match.group(1) for re.search(r"line (\d+) ", e.message):
\* the digits of the first match, None when there is none
JsonLineNo(message) ==
    LET at == {i \in 0..Len(message) :
                  /\ startswith(SliceFrom(message, i), LINE_SP)
                  /\ RunLen(message, i + 6, Digits) >= 1
                  /\ i + 6 + RunLen(message, i + 6, Digits) <= Len(message)
                  /\ message[i + 6 + RunLen(message, i + 6, Digits)] = " "}
    IN  IF at = {} THEN None
        ELSE LET i == CHOOSE x \in at : \A y \in at : x <= y
             IN  SubSeq(message, i + 6, i + 5 + RunLen(message, i + 6, Digits))

\* what json.loads does with the contents: returns, or raises ValueError(message)
JsonOk == [ok |-> TRUE, message |-> <<>>]
JsonError(message) == [ok |-> FALSE, message |-> message]

\* [out: the findings yielded, raised: whether the generator ends in an exception]
check_json(filename, loaded) ==
    IF ~endswith(filename, EXT_JSON) THEN [out |-> <<>>, raised |-> FALSE]
    ELSE IF loaded.ok THEN [out |-> <<>>, raised |-> FALSE]
    ELSE [out |-> <<[line |-> JsonLineNo(loaded.message), msg |-> loaded.message]>>,
          raised |-> FALSE]

RECURSIVE TomlFrom(_, _)
TomlFrom(lines, idx) ==
    IF idx >= Len(lines) THEN <<>>
    ELSE (IF find(lines[idx + 1], <<"*">>) # -1
          THEN <<Finding(idx + 1, "found asterisk instead of minimum version number")>>
          ELSE <<>>)
             \o TomlFrom(lines, idx + 1)

check_toml(file_name, lines) ==
    IF ~endswith(file_name, EXT_TOML) THEN <<>> ELSE TomlFrom(lines, 0)

----------------------------------------------------------------------------
(* Documentation-link rule (check_spec).                                   *)

BASE_PATH == <<"c", "o", "m", "p", "o", "n", "e", "n", "t", "s", "/", "s", "c", "r", "i", "p", "t", "/",
         "d", "o", "m", "/">>
NO_SPECS_AFTER == <<"/", "/", " ", "c", "h", "e", "c", "k", "-", "t", "i", "d", "y", ":", " ", "n", "o", " ",
         "s", "p", "e", "c", "s", " ", "a", "f", "t", "e", "r", " ", "t", "h", "i", "s", " ", "l",
         "i", "n", "e">>
FN_SP == <<"f", "n", " ">>
SP_HTTPS == <<" ", "h", "t", "t", "p", "s", ":", "/", "/">>
IMPL_SP == <<"i", "m", "p", "l", " ">>
METHODS_FOR == <<"M", "e", "t", "h", "o", "d", "s", " ", "f", "o", "r", " ">>
SP_BRACE == <<" ", "{">>

\* the characters of the regular-expression class \s
ReSpace == {" ", "\t", "\n", "\r"}

LowerMap ==
    "A" :> "a" @@ "B" :> "b" @@ "C" :> "c" @@ "D" :> "d" @@ "E" :> "e" @@ "F" :> "f" @@ "G" :> "g" @@
    "H" :> "h" @@ "I" :> "i" @@ "J" :> "j" @@ "K" :> "k" @@ "L" :> "l" @@ "M" :> "m" @@ "N" :> "n" @@
    "O" :> "o" @@ "P" :> "p" @@ "Q" :> "q" @@ "R" :> "r" @@ "S" :> "s" @@ "T" :> "t" @@ "U" :> "u" @@
    "V" :> "v" @@ "W" :> "w" @@ "X" :> "x" @@ "Y" :> "y" @@ "Z" :> "z"
lower(s) == [i \in 1..Len(s) |-> IF s[i] \in DOMAIN LowerMap THEN LowerMap[s[i]] ELSE s[i]]

\* the components of a path, "" and "." dropped (os.path.normpath)
PathParts(path) ==
    LET seps == {i \in 1..Len(path) : path[i] = "/"} \cup {0, Len(path) + 1}
        n == Cardinality(seps)
        raw == [k \in 1..(n - 1) |-> SubSeq(path, Nth(seps, k) + 1, Nth(seps, k + 1) - 1)]
    IN  SelectSeq(raw, LAMBDA part : part # <<>> /\ part # <<".">>)

RECURSIVE JoinPath(_)
JoinPath(parts) ==
    IF parts = <<>> THEN <<>>
    ELSE IF Len(parts) = 1 THEN parts[1]
    ELSE parts[1] \o <<"/">> \o JoinPath(Tail(parts))

\* os.path.splitext(path)[0]: the path without the extension of its last component
splitext_root(path) ==
    LET sep == rfind(path, <<"/">>)
        dot == rfind(path, <<".">>)
        \* a dot counts when a character other than "." precedes it in the base name
        counts == dot > sep /\ \E i \in (sep + 2)..dot : path[i] # "."
    IN  IF counts THEN SubSeq(path, 1, dot) ELSE path

\* os.path.relpath(path, start) for two paths relative to the working directory
relpath(path, start) ==
    LET p == PathParts(path)
        b == PathParts(start)
        common == Max({k \in 0..(IF Len(p) < Len(b) THEN Len(p) ELSE Len(b)) :
                          SubSeq(p, 1, k) = SubSeq(b, 1, k)})
        ups == [k \in 1..(Len(b) - common) |-> <<".", ".">>]
        rel == ups \o SubSeq(p, common + 1, Len(p))
    IN  IF rel = <<>> THEN <<".">> ELSE JoinPath(rel)

\* number of leading characters of class \s
LeadingSpace(line) == RunLen(line, 1, ReSpace)

\* the line without one final newline (what $ lets a pattern stop before)
BeforeFinalNewline(s) ==
    IF s # <<>> /\ s[Len(s)] = "\n" THEN SubSeq(s, 1, Len(s) - 1) ELSE s

\* .+$ matches the whole of s: at least one character, no newline but a final one
DotPlusToEnd(s) ==
    LET body == BeforeFinalNewline(s)
    IN  body # <<>> /\ ~Contains(body, <<"\n">>)

\* re.compile("^\s*\/\/.+").match(line)
patt_match(line) ==
    LET p == LeadingSpace(line)
    IN  /\ startswith(SliceFrom(line, p), <<"/", "/">>)
        /\ p + 3 <= Len(line)
        /\ line[p + 3] # "\n"

\* re.compile("^\s*\S+!(.*)$").match(line)
macro_patt_match(line) ==
    LET p == LeadingSpace(line)
    IN  \E k \in (p + 2)..Len(line) :
           /\ line[k] = "!"
           /\ \A j \in (p + 1)..(k - 1) : line[j] \notin ReSpace
           /\ ~Contains(BeforeFinalNewline(SliceFrom(line, k)), <<"\n">>)

\* re.compile("^\s*///? https://.+$").match(up_line)
link_patt_match(line) ==
    LET rest == SliceFrom(line, LeadingSpace(line))
    IN  \E lead \in {<<"/", "/">>, <<"/", "/", "/">>} :
           /\ startswith(rest, lead \o SP_HTTPS)
           /\ DotPlusToEnd(SliceFrom(rest, Len(lead) + Len(SP_HTTPS)))

\* re.compile("^\s*///?.+$").match(up_line)
comment_patt_match(line) ==
    LET rest == SliceFrom(line, LeadingSpace(line))
    IN  /\ startswith(rest, <<"/", "/">>)
        /\ DotPlusToEnd(SliceFrom(rest, 2))

\* "impl {}Methods for {} {{".format(file_name, file_name)
ImplPattern(file_name) == IMPL_SP \o file_name \o METHODS_FOR \o file_name \o SP_BRACE

\* lines 539-547: whether the upward scan from idx ends in a finding
RECURSIVE MissingLink(_, _, _)
MissingLink(lines, idx, up_idx) ==
    IF up_idx > idx THEN FALSE
    ELSE IF link_patt_match(lines[idx - up_idx + 1]) THEN FALSE
    ELSE IF ~comment_patt_match(lines[idx - up_idx + 1]) THEN TRUE
    ELSE MissingLink(lines, idx, up_idx + 1)

\* the local variables of check_spec before the loop, with the findings
\* yielded so far and whether the loop has been left by a break
SpecInit == [brace_count |-> 0, in_impl |-> FALSE, stopped |-> FALSE, out |-> <<>>]

spec_line_any_depth(st, idx, lines, pattern) ==
    LET line == lines[idx + 1]
    IN  IF st.stopped THEN st
        ELSE IF Contains(line, NO_SPECS_AFTER) THEN [st EXCEPT !.stopped = TRUE]
        ELSE IF patt_match(line) THEN st
        ELSE LET in_impl == st.in_impl \/ Contains(lower(line), lower(pattern))
                 declares == (Contains(line, FN_SP) \/ macro_patt_match(line))
                                 /\ st.brace_count >= 1
                 out == IF declares /\ MissingLink(lines, idx, 1)
                        THEN Append(st.out,
                                    Finding(idx + 1, "method declared in webidl is missing a comment with a specification link"))
                        ELSE st.out
                 opened == IF Contains(line, <<"{">>) /\ in_impl
                           THEN st.brace_count + 1 ELSE st.brace_count
                 closes == Contains(line, <<"}">>) /\ in_impl
             IN  [brace_count |-> IF closes /\ opened # 1 THEN opened - 1 ELSE opened,
                  in_impl |-> in_impl,
                  stopped |-> closes /\ opened = 1,
                  out |-> out]

\* lines 532-553: one iteration of the loop, for the line at 0-based idx
spec_line(st, idx, lines, pattern) ==
    LET line == lines[idx + 1]
    IN  IF st.stopped THEN st
        ELSE IF Contains(line, NO_SPECS_AFTER) THEN [st EXCEPT !.stopped = TRUE]
        ELSE IF patt_match(line) THEN st
        ELSE LET in_impl == st.in_impl \/ Contains(lower(line), lower(pattern))
                 declares == (Contains(line, FN_SP) \/ macro_patt_match(line))
                                 /\ st.brace_count = 1
                 out == IF declares /\ MissingLink(lines, idx, 1)
                        THEN Append(st.out,
                                    Finding(idx + 1, "method declared in webidl is missing a comment with a specification link"))
                        ELSE st.out
                 opened == IF Contains(line, <<"{">>) /\ in_impl
                           THEN st.brace_count + 1 ELSE st.brace_count
                 closes == Contains(line, <<"}">>) /\ in_impl
             IN  [brace_count |-> IF closes /\ opened # 1 THEN opened - 1 ELSE opened,
                  in_impl |-> in_impl,
                  stopped |-> closes /\ opened = 1,
                  out |-> out]

SpecInapplicable(file_name) == ~Contains(file_name, BASE_PATH)

RECURSIVE SpecFrom(_, _, _, _)
SpecFrom(st, idx, lines, pattern) ==
    IF idx >= Len(lines) THEN st
    ELSE SpecFrom(spec_line(st, idx, lines, pattern), idx + 1, lines, pattern)

check_spec(file_name, lines) ==
    IF SpecInapplicable(file_name) THEN <<>>
    ELSE SpecFrom(SpecInit, 0, lines,
                  ImplPattern(relpath(splitext_root(file_name), BASE_PATH))).out

----------------------------------------------------------------------------
(* File discovery: get_file_list and filter_files.                         *)

file_patterns_to_check ==
    << <<"*", ".", "r", "s">>,
       <<"*", ".", "r", "c">>,
       <<"*", ".", "c", "p", "p">>,
       <<"*", ".", "c">>,
       <<"*", ".", "h">>,
       <<"C", "a", "r", "g", "o", ".", "l", "o", "c", "k">>,
       <<"*", ".", "p", "y">>,
       <<"*", ".", "t", "o", "m", "l">>,
       <<"*", ".", "w", "e", "b", "i", "d", "l">>,
       <<"*", ".", "j", "s", "o", "n">> >>

file_patterns_to_ignore ==
    << <<"*", ".", "#", "*">>,
       <<"*", ".", "p", "y", "c">> >>

ignored_files ==
    << <<".", "/", "p", "o", "r", "t", "s", "/", "g", "o", "n", "k", "/", "s", "r", "c",
          "/", "n", "a", "t", "i", "v", "e", "_", "w", "i", "n", "d", "o", "w", "_", "g",
          "l", "u", "e", ".", "c", "p", "p">>,
       <<".", "/", "p", "o", "r", "t", "s", "/", "g", "e", "c", "k", "o", "l", "i", "b",
          "/", "b", "i", "n", "d", "i", "n", "g", "s", ".", "r", "s">>,
       <<".", "/", "p", "o", "r", "t", "s", "/", "g", "e", "c", "k", "o", "l", "i", "b",
          "/", "g", "e", "c", "k", "o", "_", "s", "t", "y", "l", "e", "_", "s", "t", "r",
          "u", "c", "t", "s", ".", "r", "s">>,
       <<".", "/", "r", "e", "s", "o", "u", "r", "c", "e", "s", "/", "h", "s", "t", "s",
          "_", "p", "r", "e", "l", "o", "a", "d", ".", "j", "s", "o", "n">>,
       <<".", "/", "t", "e", "s", "t", "s", "/", "w", "p", "t", "/", "m", "e", "t", "a",
          "d", "a", "t", "a", "/", "M", "A", "N", "I", "F", "E", "S", "T", ".", "j", "s",
          "o", "n">>,
       <<".", "/", "t", "e", "s", "t", "s", "/", "w", "p", "t", "/", "m", "e", "t", "a",
          "d", "a", "t", "a", "-", "c", "s", "s", "/", "M", "A", "N", "I", "F", "E", "S",
          "T", ".", "j", "s", "o", "n">>,
       <<".", "/", ".">> >>

ignored_dirs ==
    << <<".", "/", "s", "u", "p", "p", "o", "r", "t", "/", "a", "n", "d", "r", "o", "i",
          "d", "/", "a", "p", "k">>,
       <<".", "/", "s", "u", "p", "p", "o", "r", "t", "/", "r", "u", "s", "t", "-", "t",
          "a", "s", "k", "_", "i", "n", "f", "o">>,
       <<".", "/", "t", "e", "s", "t", "s", "/", "w", "p", "t", "/", "c", "s", "s", "-",
          "t", "e", "s", "t", "s">>,
       <<".", "/", "t", "e", "s", "t", "s", "/", "w", "p", "t", "/", "h", "a", "r", "n",
          "e", "s", "s">>,
       <<".", "/", "t", "e", "s", "t", "s", "/", "w", "p", "t", "/", "u", "p", "d", "a",
          "t", "e">>,
       <<".", "/", "t", "e", "s", "t", "s", "/", "w", "p", "t", "/", "w", "e", "b", "-",
          "p", "l", "a", "t", "f", "o", "r", "m", "-", "t", "e", "s", "t", "s">>,
       <<".", "/", "t", "e", "s", "t", "s", "/", "w", "p", "t", "/", "s", "y", "n", "c">>,
       <<".", "/", "t", "e", "s", "t", "s", "/", "w", "p", "t", "/", "s", "y", "n", "c",
          "_", "c", "s", "s">>,
       <<".", "/", "p", "y", "t", "h", "o", "n", "/", "m", "a", "c", "h">>,
       <<".", "/", "c", "o", "m", "p", "o", "n", "e", "n", "t", "s", "/", "s", "c", "r",
          "i", "p", "t", "/", "d", "o", "m", "/", "b", "i", "n", "d", "i", "n", "g", "s",
          "/", "c", "o", "d", "e", "g", "e", "n", "/", "p", "a", "r", "s", "e", "r">>,
       <<".", "/", "c", "o", "m", "p", "o", "n", "e", "n", "t", "s", "/", "s", "c", "r",
          "i", "p", "t", "/", "d", "o", "m", "/", "b", "i", "n", "d", "i", "n", "g", "s",
          "/", "c", "o", "d", "e", "g", "e", "n", "/", "p", "l", "y">>,
       <<".", "/", "p", "y", "t", "h", "o", "n", "/", "_", "v", "i", "r", "t", "u", "a",
          "l", "e", "n", "v">>,
       <<".", "/", "t", "a", "r", "g", "e", "t">>,
       <<".", "/", "p", "o", "r", "t", "s", "/", "c", "e", "f">>,
       <<".", "/", "p", "o", "r", "t", "s", "/", "g", "e", "c", "k", "o", "l", "i", "b",
          "/", "t", "o", "o", "l", "s">>,
       <<".", "/", ".">> >>

\* os.path.join(a, b) for a relative b
join(a, b) == a \o <<"/">> \o b

\* os.path.basename
basename(path) == SliceFrom(path, rfind(path, <<"/">>) + 1)

\* fnmatch.fnmatch for a pattern of literal characters and "*"
RECURSIVE fnmatch(_, _)
fnmatch(name, pattern) ==
    IF pattern = <<>> THEN name = <<>>
    ELSE IF Head(pattern) = "*"
         THEN \E k \in 0..Len(name) : fnmatch(SliceFrom(name, k), Tail(pattern))
         ELSE /\ name # <<>>
              /\ Head(name) = Head(pattern)
              /\ fnmatch(Tail(name), Tail(pattern))

filter_file(file_name) ==
    IF \E i \in DOMAIN ignored_files : startswith(file_name, ignored_files[i]) THEN FALSE
    ELSE IF \E i \in DOMAIN file_patterns_to_ignore :
                fnmatch(basename(file_name), file_patterns_to_ignore[i]) THEN FALSE
    ELSE TRUE

\* lines 95-101: whether filter_files yields the name get_file_list hands it
FilterYields(file_name) ==
    IF ~\E i \in DOMAIN file_patterns_to_check :
            fnmatch(basename(file_name), file_patterns_to_check[i]) THEN FALSE
    ELSE filter_file(file_name)

\* the files os.walk lists in directory root of a tree of file paths
WalkFiles(tree, root) ==
    {p \in tree : /\ startswith(p, root \o <<"/">>)
                  /\ ~Contains(SliceFrom(p, Len(root) + 1), <<"/">>)}

\* the subdirectories os.walk lists in directory root, as join(root, d)
WalkDirs(tree, root) ==
    {Take(p, Len(root) + 1 + find(SliceFrom(p, Len(root) + 1), <<"/">>)) :
        p \in {x \in tree : /\ startswith(x, root \o <<"/">>)
                            /\ Contains(SliceFrom(x, Len(root) + 1), <<"/">>)}}

\* line 608: the subdirectory stays in dirs
Descends(path, exclude_dirs) ==
    ~\E i \in DOMAIN exclude_dirs : startswith(path, exclude_dirs[i])

----------------------------------------------------------------------------
(* Each rule is exercised by a harness of its own; a harness leaves the    *)
(* variables of the others at rest.                                        *)

LnIdle ==
    /\ ln_name = <<>>
    /\ ln_contents = <<>>
    /\ ln_pc = "idle"
    /\ ln_license = <<>>
    /\ ln_by_line = <<>>

LkIdle ==
    /\ lk_name = <<>>
    /\ lk_content = TomlDecodeError
    /\ lk_pc = "idle"
    /\ lk_out = <<>>

RsIdle ==
    /\ rs_name = <<>>
    /\ rs_lines = <<>>
    /\ rs_pc = "idle"
    /\ rs_idx = 0
    /\ rs_st = RustInit

ScIdle ==
    /\ sc_files = <<>>
    /\ sc_lint = 0
    /\ sc_pc = "idle"
    /\ sc_file = 0
    /\ sc_check = 0
    /\ sc_stream = <<>>
    /\ sc_origin = <<>>
    /\ sc_error = <<>>
    /\ sc_success = FALSE
    /\ sc_ret = -1

SpIdle ==
    /\ sp_name = <<>>
    /\ sp_lines = <<>>
    /\ sp_pc = "idle"
    /\ sp_idx = 0
    /\ sp_st = SpecInit
    /\ sp_trace = <<>>

FfIdle ==
    /\ ff_tree = {}
    /\ ff_faster = FALSE
    /\ ff_pc = "idle"
    /\ ff_stack = <<>>
    /\ ff_listed = <<>>
    /\ ff_next = 1
    /\ ff_yielded = <<>>

----------------------------------------------------------------------------
(* By-line harness: check_license and check_by_line applied, as            *)
(* collect_errors_for_files applies them, to contents.splitlines(True).    *)

A120 == [i \in 1..120 |-> "a"]

\* pieces the contents of a file are assembled from
Chunks ==
    { <<"/", "*", "M", "\n">>,                       \* first line of licenses[1]
      <<"*", "/", "\n">>,                            \* second line of licenses[1]
      <<"#", "M", "\n">>,                            \* licenses[2]
      <<"/", "*", "N", "\n">>,                       \* first line with one character altered
      EMACS_HEADER \o <<"\n">>,
      VIM_HEADER \o <<"\n">>,
      XFAIL_LICENSE \o <<"\n">>,
      A120,
      <<"a">>,
      <<"\n">>,
      <<"\r">>,
      <<" ", "\n">> }

LnNames ==
    { <<"a">> \o EXT_RS, <<"a">> \o EXT_TOML, <<"C">> \o EXT_LOCK, <<"a">> \o EXT_JSON,
      <<"a">> \o EXT_PY }

LnContents ==
    {Join(cs) : cs \in UNION {[1..n -> Chunks] : n \in 0..MaxChunks}}

LnLines == splitlines(ln_contents, TRUE)

LnInit ==
    /\ ln_name \in LnNames
    /\ ln_contents \in LnContents
    /\ ln_pc = "license"
    /\ ln_license = <<>>
    /\ ln_by_line = <<>>
    /\ LkIdle
    /\ RsIdle
    /\ ScIdle
    /\ SpIdle
    /\ FfIdle

LnCheckLicense ==
    /\ ln_pc = "license"
    /\ ln_license' = check_license(ln_name, LnLines)
    /\ ln_pc' = "by_line"
    /\ UNCHANGED <<ln_name, ln_contents, ln_by_line>>
    /\ UNCHANGED <<lk_vars, rs_vars, sc_vars, sp_vars, ff_vars>>

LnCheckByLine ==
    /\ ln_pc = "by_line"
    /\ ln_by_line' = check_by_line(ln_name, LnLines)
    /\ ln_pc' = "done"
    /\ UNCHANGED <<ln_name, ln_contents, ln_license>>
    /\ UNCHANGED <<lk_vars, rs_vars, sc_vars, sp_vars, ff_vars>>

LnNext == LnCheckLicense \/ LnCheckByLine

SpecLine == LnInit /\ [][LnNext]_vars

----------------------------------------------------------------------------
(* Lock harness: check_lock applied to a parsed dependency manifest.       *)

FOO == <<"f", "o", "o">>
BAR == <<"b", "a", "r">>
BITFLAGS == <<"b", "i", "t", "f", "l", "a", "g", "s">>
SERVO == <<"s", "e", "r", "v", "o">>
V1_0 == <<"1", ".", "0">>
V1_0_5 == <<"1", ".", "0", ".", "5">>
V2_0 == <<"2", ".", "0">>
SOURCE == <<" ", "(", "r", ")">>

\* dependency lists: entries read "name version (source)"
LkDependencies ==
    { <<>>,
      <<FOO \o <<" ">> \o V1_0 \o SOURCE>>,
      <<FOO \o <<" ">> \o V1_0_5 \o SOURCE, FOO \o BAR \o <<" ">> \o V1_0 \o SOURCE>> }

LkEntries ==
    [name : {FOO, BITFLAGS}, version : {V1_0, V1_0_5, V2_0}, dependencies : LkDependencies]

LkRoots == [name : {SERVO}, version : {V1_0}, dependencies : LkDependencies]

LkManifests ==
    [root : LkRoots, package : UNION {[1..n -> LkEntries] : n \in 0..MaxPackages}]

LkInit ==
    /\ \/ /\ lk_name = <<"C">> \o EXT_LOCK
          /\ lk_content \in LkManifests \cup {TomlDecodeError}
       \/ /\ lk_name = <<"C">> \o EXT_TOML
          /\ lk_content \in {m \in LkManifests : Len(m.package) <= 2} \cup {TomlDecodeError}
    /\ lk_pc = "check"
    /\ lk_out = <<>>
    /\ LnIdle
    /\ RsIdle
    /\ ScIdle
    /\ SpIdle
    /\ FfIdle

\* the generator runs to its end
LkCheckLock ==
    /\ lk_pc = "check"
    /\ \E order \in IterOrders(IF IsParsed(lk_content) THEN PackageNames(lk_content) ELSE {}) :
          LET r == check_lock(lk_name, lk_content, order)
          IN  /\ ~r.raised
              /\ lk_out' = r.out
              /\ lk_pc' = "done"
    /\ UNCHANGED <<lk_name, lk_content>>
    /\ UNCHANGED <<ln_vars, rs_vars, sc_vars, sp_vars, ff_vars>>

\* toml.loads raises and the exception leaves the generator
LkRaise ==
    /\ lk_pc = "check"
    /\ check_lock(lk_name, lk_content, <<>>).raised
    /\ lk_pc' = "raised"
    /\ UNCHANGED <<lk_name, lk_content, lk_out>>
    /\ UNCHANGED <<ln_vars, rs_vars, sc_vars, sp_vars, ff_vars>>

LkNext == LkCheckLock \/ LkRaise

SpecLock == LkInit /\ [][LkNext]_vars

----------------------------------------------------------------------------
(* Rust harness: check_rust read line by line over the lines of a file.    *)

\* the lines a Rust file is assembled from (each ends in a newline; the
\* last line of a file may lack it)
RsTexts ==
    { <<"u", "s", "e", " ", "b", ":", ":", "x", ";">>, <<"u", "s", "e", " ", "a", ":", ":", "y", ";">>, <<" ", " ", "u", "s", "e", " ", "a", ":", ":", "y", ";">>, <<>>, <<"f", "n", " ", "f", "(", ")", " ", "{", "}">>,
      <<"/", "/", " ", "c">>, <<"#", "[", "m", "a", "c", "r", "o", "_", "u", "s", "e", "]">>, <<"e", "x", "t", "e", "r", "n", " ", "c", "r", "a", "t", "e", " ", "b", ";">>, <<"e", "x", "t", "e", "r", "n", " ", "c", "r", "a", "t", "e", " ", "a", ";">>,
      <<"m", "o", "d", " ", "b", ";">>, <<"p", "u", "b", " ", "m", "o", "d", " ", "a", ";">>, <<"/", "*">>, <<"*", "/">>, <<"g", "(", "1", ",", "2", ")", " ", "\\">> }

RsFiles ==
    UNION {[1..n -> RsTexts] : n \in 0..MaxRustLines}

\* the contents of a file made of the given line texts
RECURSIVE RsJoin(_)
RsJoin(texts) ==
    IF texts = <<>> THEN <<>> ELSE Head(texts) \o <<"\n">> \o RsJoin(Tail(texts))

RsContents ==
    {RsJoin(f) : f \in RsFiles}
        \cup {SubSeq(RsJoin(f), 1, Len(RsJoin(f)) - 1) : f \in RsFiles \ {<<>>}}

RsNames == { <<"a">> \o EXT_RS, STYLE_BUILD_RS, <<"a">> \o EXT_PY }

RsInit ==
    /\ \/ /\ rs_name = <<"a">> \o EXT_RS
          /\ \E c \in RsContents : rs_lines = splitlines(c, TRUE)
       \/ /\ rs_name \in RsNames
          /\ \E c \in {d \in RsContents : Len(d) <= 10} : rs_lines = splitlines(c, TRUE)
    /\ rs_pc = "start"
    /\ rs_idx = 0
    /\ rs_st = RustInit
    /\ LnIdle
    /\ LkIdle
    /\ ScIdle
    /\ SpIdle
    /\ FfIdle

\* the rule does not apply to the file: the generator ends at once
RsInapplicable ==
    /\ rs_pc = "start"
    /\ RustInapplicable(rs_name)
    /\ rs_pc' = "done"
    /\ UNCHANGED <<rs_name, rs_lines, rs_idx, rs_st>>
    /\ UNCHANGED <<ln_vars, lk_vars, sc_vars, sp_vars, ff_vars>>

RsEnter ==
    /\ rs_pc = "start"
    /\ ~RustInapplicable(rs_name)
    /\ rs_pc' = "loop"
    /\ UNCHANGED <<rs_name, rs_lines, rs_idx, rs_st>>
    /\ UNCHANGED <<ln_vars, lk_vars, sc_vars, sp_vars, ff_vars>>

RsLine ==
    /\ rs_pc = "loop"
    /\ rs_idx < Len(rs_lines)
    /\ rs_st' = rust_line(rs_st, rs_idx, rs_lines)
    /\ rs_idx' = rs_idx + 1
    /\ UNCHANGED <<rs_name, rs_lines, rs_pc>>
    /\ UNCHANGED <<ln_vars, lk_vars, sc_vars, sp_vars, ff_vars>>

RsEnd ==
    /\ rs_pc = "loop"
    /\ rs_idx = Len(rs_lines)
    /\ rs_pc' = "done"
    /\ UNCHANGED <<rs_name, rs_lines, rs_idx, rs_st>>
    /\ UNCHANGED <<ln_vars, lk_vars, sc_vars, sp_vars, ff_vars>>

RsNext == RsInapplicable \/ RsEnter \/ RsLine \/ RsEnd

SpecRust == RsInit /\ [][RsNext]_vars

----------------------------------------------------------------------------
(* Scan harness: scan() consuming the chain of collect_errors_for_files    *)
(* over the files filter_files yields, followed by the WPT lint.  A file   *)
(* is [name, contents] with what the three libraries make of the contents  *)
(* where a rule consults them: toml.loads for a .lock file, json.loads for *)
(* a .json file, flake8 for a .py file.                                    *)

\* line and msg fields of the flake8 report "./a.py:1:1: F401 'os' imported but unused"
ScFlake8Report == <<[line |-> <<"1">>, msg |-> "F401 'os' imported but unused"]>>

\* ValueError messages of json.loads
ScJsonExpecting == <<"E", "x", "p", "e", "c", "t", "i", "n", "g", " ", "p", "r", "o", "p", "e", "r",
             "t", "y", " ", "n", "a", "m", "e", ":", " ", "l", "i", "n", "e", " ", "1", " ",
             "c", "o", "l", "u", "m", "n", " ", "1", "0", " ", "(", "c", "h", "a", "r", " ",
             "9", ")">>
ScJsonNoObject == <<"N", "o", " ", "J", "S", "O", "N", " ", "o", "b", "j", "e", "c", "t", " ", "c",
             "o", "u", "l", "d", " ", "b", "e", " ", "d", "e", "c", "o", "d", "e", "d">>

ScLockText ==
    <<"[", "r", "o", "o", "t", "]", "\n", "n", "a", "m", "e", " ", "=", " ", "\"", "s",
        "e", "r", "v", "o", "\"", "\n", "v", "e", "r", "s", "i", "o", "n", " ", "=", " ",
        "\"", "1", ".", "0", "\"", "\n", "d", "e", "p", "e", "n", "d", "e", "n", "c", "i",
        "e", "s", " ", "=", " ", "[", "\n", " ", "\"", "f", "o", "o", " ", "1", ".", "0",
        " ", "(", "r", ")", "\"", ",", "\n", " ", "\"", "f", "o", "o", " ", "2", ".", "0",
        " ", "(", "r", ")", "\"", ",", "\n", "]", "\n", "\n", "[", "[", "p", "a", "c", "k",
        "a", "g", "e", "]", "]", "\n", "n", "a", "m", "e", " ", "=", " ", "\"", "f", "o",
        "o", "\"", "\n", "v", "e", "r", "s", "i", "o", "n", " ", "=", " ", "\"", "1", ".",
        "0", "\"", "\n", "s", "o", "u", "r", "c", "e", " ", "=", " ", "\"", "r", "\"", "\n",
        "\n", "[", "[", "p", "a", "c", "k", "a", "g", "e", "]", "]", "\n", "n", "a", "m",
        "e", " ", "=", " ", "\"", "f", "o", "o", "\"", "\n", "v", "e", "r", "s", "i", "o",
        "n", " ", "=", " ", "\"", "2", ".", "0", "\"", "\n", "s", "o", "u", "r", "c", "e",
        " ", "=", " ", "\"", "r", "\"", "\n">>

ScLockManifest ==
    [root |-> [name |-> SERVO, version |-> V1_0,
               dependencies |-> <<FOO \o <<" ">> \o V1_0 \o SOURCE, FOO \o <<" ">> \o V2_0 \o SOURCE>>],
     package |-> <<[name |-> FOO, version |-> V1_0, dependencies |-> <<>>],
                   [name |-> FOO, version |-> V2_0, dependencies |-> <<>>]>>]

ScFile(name, contents, toml, json, flake8) ==
    [name |-> name, contents |-> contents, toml |-> toml, json |-> json, flake8 |-> flake8]

\* the files a tree is assembled from
ScCatalog ==
    { ScFile(<<".", "/", "a", ".", "r", "s">>, <<"u", "s", "e", " ", "b", ":", ":", "x", ";", "\n", "u", "s", "e", " ", "a", ":",
             ":", "y", ";", "\n">>, TomlDecodeError, JsonOk, <<>>),
      ScFile(<<".", "/", "b", ".", "r", "s">>, <<"#", "M", "\n">>, TomlDecodeError, JsonOk, <<>>),
      ScFile(<<".", "/", "c", "o", "m", "p", "o", "n", "e", "n", "t", "s", "/", "s", "c", "r",
             "i", "p", "t", "/", "d", "o", "m", "/", "f", "o", "o", ".", "r", "s">>,
             <<"#", "M", "\n", "i", "m", "p", "l", " ", "F", "o", "o", "M", "e", "t", "h", "o",
             "d", "s", " ", "f", "o", "r", " ", "F", "o", "o", " ", "{", "\n", " ", " ", " ",
             " ", "f", "n", " ", "f", "(", "&", "s", "e", "l", "f", ")", " ", "{", "\n", " ",
             " ", " ", " ", "}", "\n", "}", "\n">>,
             TomlDecodeError, JsonOk, <<>>),
      ScFile(<<".", "/", "C", "a", "r", "g", "o", ".", "l", "o", "c", "k">>, <<"[", "r", "o", "o", "t", "\n">>, TomlDecodeError, JsonOk, <<>>),
      ScFile(<<".", "/", "x", "/", "C", "a", "r", "g", "o", ".", "l", "o", "c", "k">>, ScLockText, ScLockManifest, JsonOk, <<>>),
      ScFile(<<".", "/", "C", "a", "r", "g", "o", ".", "t", "o", "m", "l">>, <<"#", "M", "\n", "[", "d", "e", "p", "e", "n", "d", "e", "n", "c", "i", "e", "s",
             "]", "\n", "f", "o", "o", " ", "=", " ", "\"", "*", "\"", "\n">>, TomlDecodeError, JsonOk, <<>>),
      ScFile(<<".", "/", "a", ".", "j", "s", "o", "n">>, <<"{", "\"", "a", "\"", ":", " ", "1", ",", "}">>, TomlDecodeError, JsonError(ScJsonExpecting), <<>>),
      ScFile(<<".", "/", "b", ".", "j", "s", "o", "n">>, <<"{", "}", "\n">>, TomlDecodeError, JsonOk, <<>>),
      ScFile(<<".", "/", "c", ".", "j", "s", "o", "n">>, <<"x", " ", "\n">>, TomlDecodeError, JsonError(ScJsonNoObject), <<>>),
      ScFile(<<".", "/", "a", ".", "p", "y">>, <<"i", "m", "p", "o", "r", "t", " ", "o", "s", "\n">>, TomlDecodeError, JsonOk, ScFlake8Report),
      ScFile(<<".", "/", "a", ".", "w", "e", "b", "i", "d", "l">>, <<"i", "n", "t", "e", "r", "f", "a", "c", "e", " ", "A", " ", "{", "}", ";", "\n">>, TomlDecodeError, JsonOk, <<>>) }

\* the trees: distinct files in the order the walk of the directory yields them
ScTrees ==
    {files \in UNION {[1..n -> ScCatalog] : n \in 0..MaxFiles} :
        \A i, j \in DOMAIN files : i # j => files[i].name # files[j].name}

\* exit statuses of the WPT lint tool
LintReturnCodes == {0, 1, 2}

\* scan, lines 618-619, in the order collect_errors_for_files applies them
checking_functions == <<"check_flake8", "check_lock", "check_webidl_spec", "check_json">>
line_checking_functions ==
    <<"check_license", "check_by_line", "check_toml", "check_rust", "check_spec">>

ChecksLinesFirst == line_checking_functions \o checking_functions

\* lines 561-568: whole-file rules first, then the line rules
Checks == checking_functions \o line_checking_functions

\* value of sc_ret while scan has not returned
NoReturn == -1

ReturnCodeInverted(error) == IF error = <<>> THEN 1 ELSE 0

\* int(error is not None)
ReturnCode(error) == IF error # <<>> THEN 1 ELSE 0

WPT_LINT_TOOL == <<"W", "P", "T", " ", "L", "i", "n", "t", " ", "T", "o", "o", "l">>

\* line 588: ("WPT Lint Tool", "", message)
WptFinding(returncode) ==
    [file |-> WPT_LINT_TOOL,
     error |-> Finding(<<>>, "lint error(s) in Web Platform Tests: exit status "
                                 \o ToString(returncode))]

ScInit ==
    /\ sc_files \in ScTrees
    /\ sc_lint \in LintReturnCodes
    /\ sc_pc = "next"
    /\ sc_file = 0
    /\ sc_check = 0
    /\ sc_stream = <<>>
    /\ sc_origin = <<>>
    /\ sc_error = <<>>
    /\ sc_success = FALSE
    /\ sc_ret = NoReturn
    /\ LnIdle
    /\ LkIdle
    /\ RsIdle
    /\ SpIdle
    /\ FfIdle

ScCurrent == sc_files[sc_file]

ScLines == splitlines(ScCurrent.contents, TRUE)

\* scan's loop body for each error the current rule yields: (filename,) + error
\* is printed and becomes the value of error
ScYield(out) ==
    /\ sc_stream' = sc_stream \o [k \in 1..Len(out) |-> [file |-> ScCurrent.name, error |-> out[k]]]
    /\ sc_origin' = sc_origin \o [k \in 1..Len(out) |->
                        [file |-> sc_file, check |-> Checks[sc_check]]]
    /\ sc_error' = IF out = <<>> THEN sc_error
                   ELSE <<[file |-> ScCurrent.name, error |-> out[Len(out)]]>>

\* the rule's generator is exhausted: on to the next rule, or the next file
ScAdvance ==
    /\ IF sc_check < Len(Checks)
       THEN sc_check' = sc_check + 1 /\ sc_pc' = "check"
       ELSE sc_check' = sc_check /\ sc_pc' = "next"
    /\ UNCHANGED <<sc_files, sc_lint, sc_file, sc_success, sc_ret>>

ScAt(check) == sc_pc = "check" /\ Checks[sc_check] = check

\* lines 558-560: the next file is opened and read
ScOpen ==
    /\ sc_pc = "next"
    /\ sc_file < Len(sc_files)
    /\ sc_file' = sc_file + 1
    /\ sc_check' = 1
    /\ sc_pc' = "check"
    /\ UNCHANGED <<sc_files, sc_lint, sc_stream, sc_origin, sc_error, sc_success, sc_ret>>
    /\ UNCHANGED <<ln_vars, lk_vars, rs_vars, sp_vars, ff_vars>>

\* collect_errors_for_files is exhausted; the chain moves to the WPT lint
ScFilesDone ==
    /\ sc_pc = "next"
    /\ sc_file >= Len(sc_files)
    /\ sc_pc' = "wpt"
    /\ UNCHANGED <<sc_files, sc_lint, sc_file, sc_check, sc_stream, sc_origin, sc_error,
                   sc_success, sc_ret>>
    /\ UNCHANGED <<ln_vars, lk_vars, rs_vars, sp_vars, ff_vars>>

ScFlake8 ==
    /\ ScAt("check_flake8")
    /\ ScYield(check_flake8(ScCurrent.name, ScCurrent.flake8))
    /\ ScAdvance
    /\ UNCHANGED <<ln_vars, lk_vars, rs_vars, sp_vars, ff_vars>>

ScLock ==
    /\ ScAt("check_lock")
    /\ \E order \in IterOrders(IF endswith(ScCurrent.name, EXT_LOCK) /\ IsParsed(ScCurrent.toml)
                               THEN PackageNames(ScCurrent.toml) ELSE {}) :
          LET r == check_lock(ScCurrent.name, ScCurrent.toml, order)
          IN  /\ ~r.raised
              /\ ScYield(r.out)
    /\ ScAdvance
    /\ UNCHANGED <<ln_vars, lk_vars, rs_vars, sp_vars, ff_vars>>

\* toml.loads raises: the exception leaves check_lock, collect_errors_for_files
\* and scan, none of which handles it
ScLockRaise ==
    /\ ScAt("check_lock")
    /\ check_lock(ScCurrent.name, ScCurrent.toml, <<>>).raised
    /\ sc_pc' = "aborted"
    /\ UNCHANGED <<sc_files, sc_lint, sc_file, sc_check, sc_stream, sc_origin, sc_error,
                   sc_success, sc_ret>>
    /\ UNCHANGED <<ln_vars, lk_vars, rs_vars, sp_vars, ff_vars>>

ScWebidl ==
    /\ ScAt("check_webidl_spec")
    /\ ScYield(check_webidl_spec(ScCurrent.name, ScCurrent.contents))
    /\ ScAdvance
    /\ UNCHANGED <<ln_vars, lk_vars, rs_vars, sp_vars, ff_vars>>

ScJson ==
    /\ ScAt("check_json")
    /\ LET r == check_json(ScCurrent.name, ScCurrent.json)
       IN  /\ ~r.raised
           /\ ScYield(r.out)
    /\ ScAdvance
    /\ UNCHANGED <<ln_vars, lk_vars, rs_vars, sp_vars, ff_vars>>

ScLicense ==
    /\ ScAt("check_license")
    /\ ScYield(check_license(ScCurrent.name, ScLines))
    /\ ScAdvance
    /\ UNCHANGED <<ln_vars, lk_vars, rs_vars, sp_vars, ff_vars>>

ScByLine ==
    /\ ScAt("check_by_line")
    /\ ScYield(check_by_line(ScCurrent.name, ScLines))
    /\ ScAdvance
    /\ UNCHANGED <<ln_vars, lk_vars, rs_vars, sp_vars, ff_vars>>

ScToml ==
    /\ ScAt("check_toml")
    /\ ScYield(check_toml(ScCurrent.name, ScLines))
    /\ ScAdvance
    /\ UNCHANGED <<ln_vars, lk_vars, rs_vars, sp_vars, ff_vars>>

ScRust ==
    /\ ScAt("check_rust")
    /\ ScYield(check_rust(ScCurrent.name, ScLines))
    /\ ScAdvance
    /\ UNCHANGED <<ln_vars, lk_vars, rs_vars, sp_vars, ff_vars>>

ScSpec ==
    /\ ScAt("check_spec")
    /\ ScYield(check_spec(ScCurrent.name, ScLines))
    /\ ScAdvance
    /\ UNCHANGED <<ln_vars, lk_vars, rs_vars, sp_vars, ff_vars>>

\* check_wpt_lint_errors: one finding when the lint tool's exit status is not 0
ScWptLint ==
    /\ sc_pc = "wpt"
    /\ IF sc_lint # 0
       THEN /\ sc_stream' = Append(sc_stream, WptFinding(sc_lint))
            /\ sc_origin' = Append(sc_origin, [file |-> 0, check |-> "check_wpt_lint_errors"])
            /\ sc_error' = <<WptFinding(sc_lint)>>
       ELSE UNCHANGED <<sc_stream, sc_origin, sc_error>>
    /\ sc_pc' = "return"
    /\ UNCHANGED <<sc_files, sc_lint, sc_file, sc_check, sc_success, sc_ret>>
    /\ UNCHANGED <<ln_vars, lk_vars, rs_vars, sp_vars, ff_vars>>

\* lines 630-632
ScReturn ==
    /\ sc_pc = "return"
    /\ sc_success' = (sc_error = <<>>)
    /\ sc_ret' = ReturnCode(sc_error)
    /\ sc_pc' = "done"
    /\ UNCHANGED <<sc_files, sc_lint, sc_file, sc_check, sc_stream, sc_origin, sc_error>>
    /\ UNCHANGED <<ln_vars, lk_vars, rs_vars, sp_vars, ff_vars>>

ScNext ==
    \/ ScOpen \/ ScFilesDone
    \/ ScFlake8 \/ ScLock \/ ScLockRaise \/ ScWebidl \/ ScJson
    \/ ScLicense \/ ScByLine \/ ScToml \/ ScRust \/ ScSpec
    \/ ScWptLint \/ ScReturn

SpecScan == ScInit /\ [][ScNext]_vars

----------------------------------------------------------------------------
(* Link harness: check_spec read line by line over the lines of a file.    *)

\* lines a file is assembled from
SpTexts ==
    { <<"i", "m", "p", "l", " ", "F", "o", "o", "M", "e", "t", "h", "o", "d", "s", " ",
        "f", "o", "r", " ", "F", "o", "o", " ", "{", "\n">>,
      <<" ", " ", " ", " ", "/", "/", " ", "h", "t", "t", "p", "s", ":", "/", "/", "a",
        ".", "b", "/", "#", "c", "\n">>,
      <<" ", " ", " ", " ", "/", "/", " ", "t", "e", "x", "t", "\n">>,
      <<" ", " ", " ", " ", "f", "n", " ", "f", "(", "&", "s", "e", "l", "f", ")", " ",
        "{", "\n">>,
      <<" ", " ", " ", " ", "f", "n", " ", "g", "(", "&", "s", "e", "l", "f", ")", " ",
        "{", " ", "}", "\n">>,
      <<" ", " ", " ", " ", "m", "a", "k", "e", "_", "g", "e", "t", "t", "e", "r", "!",
        "(", "X", ")", ";", "\n">>,
      <<" ", " ", " ", " ", "}", "\n">>,
      <<"/", "/", " ", "c", "h", "e", "c", "k", "-", "t", "i", "d", "y", ":", " ", "n",
        "o", " ", "s", "p", "e", "c", "s", " ", "a", "f", "t", "e", "r", " ", "t", "h",
        "i", "s", " ", "l", "i", "n", "e", "\n">> }

SpFiles == UNION {[1..n -> SpTexts] : n \in 0..MaxSpecLines}

SpDomName == <<".", "/", "c", "o", "m", "p", "o", "n", "e", "n", "t", "s", "/", "s", "c", "r",
        "i", "p", "t", "/", "d", "o", "m", "/", "f", "o", "o", ".", "r", "s">>

SpNames == {SpDomName, <<".", "/", "a", ".", "r", "s">>}

SpPattern == ImplPattern(relpath(splitext_root(sp_name), BASE_PATH))

SpInit ==
    /\ sp_name \in SpNames
    /\ sp_lines \in SpFiles
    /\ sp_name # SpDomName => Len(sp_lines) <= 1
    /\ sp_pc = "start"
    /\ sp_idx = 0
    /\ sp_st = SpecInit
    /\ sp_trace = <<>>
    /\ LnIdle
    /\ LkIdle
    /\ RsIdle
    /\ ScIdle
    /\ FfIdle

\* lines 515-517: the file is not under components/script/dom/
SpInapplicable ==
    /\ sp_pc = "start"
    /\ SpecInapplicable(sp_name)
    /\ sp_pc' = "done"
    /\ UNCHANGED <<sp_name, sp_lines, sp_idx, sp_st, sp_trace>>
    /\ UNCHANGED <<ln_vars, lk_vars, rs_vars, sc_vars, ff_vars>>

\* lines 518-530
SpEnter ==
    /\ sp_pc = "start"
    /\ ~SpecInapplicable(sp_name)
    /\ sp_pc' = "loop"
    /\ UNCHANGED <<sp_name, sp_lines, sp_idx, sp_st, sp_trace>>
    /\ UNCHANGED <<ln_vars, lk_vars, rs_vars, sc_vars, ff_vars>>

\* lines 532-553: one iteration of the loop
SpLine ==
    /\ sp_pc = "loop"
    /\ sp_idx < Len(sp_lines)
    /\ ~sp_st.stopped
    /\ sp_st' = spec_line(sp_st, sp_idx, sp_lines, SpPattern)
    /\ sp_trace' = Append(sp_trace, [brace_count |-> sp_st.brace_count, in_impl |-> sp_st.in_impl])
    /\ sp_idx' = sp_idx + 1
    /\ UNCHANGED <<sp_name, sp_lines, sp_pc>>
    /\ UNCHANGED <<ln_vars, lk_vars, rs_vars, sc_vars, ff_vars>>

\* the loop is left by a break or at the last line
SpEnd ==
    /\ sp_pc = "loop"
    /\ sp_st.stopped \/ sp_idx >= Len(sp_lines)
    /\ sp_pc' = "done"
    /\ UNCHANGED <<sp_name, sp_lines, sp_idx, sp_st, sp_trace>>
    /\ UNCHANGED <<ln_vars, lk_vars, rs_vars, sc_vars, ff_vars>>

SpNext == SpInapplicable \/ SpEnter \/ SpLine \/ SpEnd

SpecLink == SpInit /\ [][SpNext]_vars

----------------------------------------------------------------------------
(* Discovery harness: filter_files('.', faster, progress) over a tree of   *)
(* files.  The progress wrapper only lists the names before they are       *)
(* filtered, so the names are listed first and filtered afterwards.        *)

\* the files a tree is assembled from
FfPaths ==
    { <<".", "/", "a", ".", "r", "s">>,
      <<".", "/", "x", "/", "b", ".", "r", "s">>,
      <<".", "/", "x", "/", "C", "a", "r", "g", "o", ".", "l", "o", "c", "k">>,
      <<".", "/", "x", "/", "c", ".", "t", "x", "t">>,
      <<".", "/", "x", "/", "d", ".", "p", "y", "c">>,
      <<".", "/", "x", "/", ".", "#", "e", ".", "r", "s">>,
      <<".", "/", ".", "f", ".", "p", "y">>,
      <<".", "/", ".", "g", "i", "t", "/", "g", ".", "p", "y">>,
      <<".", "/", "r", "e", "s", "o", "u", "r", "c", "e", "s", "/", "h", "s", "t", "s",
        "_", "p", "r", "e", "l", "o", "a", "d", ".", "j", "s", "o", "n">>,
      <<".", "/", "t", "a", "r", "g", "e", "t", "/", "h", ".", "r", "s">>,
      <<".", "/", "t", "a", "r", "g", "e", "t", "s", "/", "i", ".", "r", "s">>,
      <<".", "/", "p", "o", "r", "t", "s", "/", "c", "e", "f", "/", "j", ".", "r", "s">>,
      <<".", "/", "t", "e", "s", "t", "s", "/", "w", "p", "t", "/", "h", "a", "r", "n",
        "e", "s", "s", "/", "k", ".", "p", "y">> }

FfTrees == {t \in SUBSET FfPaths : Cardinality(t) <= MaxTreeFiles}

DOT == <<".">>

FfInit ==
    /\ ff_tree \in FfTrees
    /\ ff_faster \in BOOLEAN
    /\ ff_pc = "list"
    /\ ff_stack = <<DOT>>
    /\ ff_listed = <<>>
    /\ ff_next = 1
    /\ ff_yielded = <<>>
    /\ LnIdle
    /\ LkIdle
    /\ RsIdle
    /\ ScIdle
    /\ SpIdle

\* lines 592-602: the names version control reports, each joined to "."; the
\* tree stands for the changed and untracked files, in the order reported
FfChanged ==
    /\ ff_pc = "list"
    /\ ff_faster
    /\ \E order \in IterOrders(ff_tree) :
          ff_listed' = [k \in DOMAIN order |-> join(DOT, SliceFrom(order[k], 2))]
    /\ ff_pc' = "filter"
    /\ UNCHANGED <<ff_tree, ff_faster, ff_stack, ff_next, ff_yielded>>
    /\ UNCHANGED <<ln_vars, lk_vars, rs_vars, sc_vars, sp_vars>>

\* lines 603-609: os.walk visits the next directory, top down, in the order
\* the directory lists its entries
FfWalk ==
    /\ ff_pc = "list"
    /\ ~ff_faster
    /\ ff_stack # <<>>
    /\ LET root == Head(ff_stack)
           dirs == {d \in WalkDirs(ff_tree, root) : Descends(d, ignored_dirs)}
       IN  \E files \in IterOrders(WalkFiles(ff_tree, root)), down \in IterOrders(dirs) :
              /\ ff_listed' = ff_listed \o files
              /\ ff_stack' = down \o Tail(ff_stack)
    /\ UNCHANGED <<ff_tree, ff_faster, ff_pc, ff_next, ff_yielded>>
    /\ UNCHANGED <<ln_vars, lk_vars, rs_vars, sc_vars, sp_vars>>

\* os.walk has no directory left
FfWalked ==
    /\ ff_pc = "list"
    /\ ~ff_faster
    /\ ff_stack = <<>>
    /\ ff_pc' = "filter"
    /\ UNCHANGED <<ff_tree, ff_faster, ff_stack, ff_listed, ff_next, ff_yielded>>
    /\ UNCHANGED <<ln_vars, lk_vars, rs_vars, sc_vars, sp_vars>>

\* lines 95-101: the name passes both tests and is yielded
FfYield ==
    /\ ff_pc = "filter"
    /\ ff_next <= Len(ff_listed)
    /\ FilterYields(ff_listed[ff_next])
    /\ ff_yielded' = Append(ff_yielded, ff_listed[ff_next])
    /\ ff_next' = ff_next + 1
    /\ UNCHANGED <<ff_tree, ff_faster, ff_pc, ff_stack, ff_listed>>
    /\ UNCHANGED <<ln_vars, lk_vars, rs_vars, sc_vars, sp_vars>>

\* lines 95-100: continue
FfSkip ==
    /\ ff_pc = "filter"
    /\ ff_next <= Len(ff_listed)
    /\ ~FilterYields(ff_listed[ff_next])
    /\ ff_next' = ff_next + 1
    /\ UNCHANGED <<ff_tree, ff_faster, ff_pc, ff_stack, ff_listed, ff_yielded>>
    /\ UNCHANGED <<ln_vars, lk_vars, rs_vars, sc_vars, sp_vars>>

FfEnd ==
    /\ ff_pc = "filter"
    /\ ff_next > Len(ff_listed)
    /\ ff_pc' = "done"
    /\ UNCHANGED <<ff_tree, ff_faster, ff_stack, ff_listed, ff_next, ff_yielded>>
    /\ UNCHANGED <<ln_vars, lk_vars, rs_vars, sc_vars, sp_vars>>

FfNext == FfChanged \/ FfWalk \/ FfWalked \/ FfYield \/ FfSkip \/ FfEnd

SpecFilter == FfInit /\ [][FfNext]_vars

----------------------------------------------------------------------------
(* Claims about the license and length rules (SpecLine).                   *)

LengthFindings == SelectSeq(ln_by_line, LAMBDA e : e.msg = "Line is longer than 120 characters")

LongLineNumbers == {i \in 1..Len(LnLines) : Len(rstrip_nl(LnLines[i])) > max_length}

\* C2 as stated: for a file name ending in .lock, .json or .toml, neither
\* check_license nor check_length yields a finding, whatever the content.
C2_AsStated ==
    (ln_pc = "done" /\ \E ext \in {EXT_LOCK, EXT_JSON, EXT_TOML} : endswith(ln_name, ext))
        => (ln_license = <<>> /\ LengthFindings = <<>>)

\* C2 amended: for a file name ending in .lock or .json neither rule yields a
\* finding; for a name ending in .toml check_license yields no finding, and
\* check_length yields one finding for each line longer than 120 characters.
C2_ExemptExtensions ==
    ln_pc = "done" =>
        /\ (endswith(ln_name, EXT_LOCK) \/ endswith(ln_name, EXT_JSON))
               => (ln_license = <<>> /\ LengthFindings = <<>>)
        /\ endswith(ln_name, EXT_TOML)
               => /\ ln_license = <<>>
                  /\ {e.line : e \in Range(LengthFindings)} = LongLineNumbers
                  /\ Len(LengthFindings) = Cardinality(LongLineNumbers)

\* a .json file with an over-long line and no license has passed both rules
C2_Witness ==
    /\ ln_pc = "done"
    /\ endswith(ln_name, EXT_JSON)
    /\ LongLineNumbers # {}
    /\ ~\E i \in DOMAIN licenses : startswith(ln_contents, licenses[i])
    /\ ln_license = <<>>
    /\ LengthFindings = <<>>

\* C3: for a file that is not license-exempt, check_license yields no finding
\* when the content after the leading editor-mode lines begins with a known
\* license text; yields exactly the finding (1, "incorrect license") when it
\* begins with none and the marker is absent from the first
\* MAX_LICENSE_LINESPAN lines; and never yields more than one finding.
C3_License ==
    (ln_pc # "license" /\ ~IsLicenseExempt(ln_name)) =>
        LET stripped == StripHeaders(LnLines)
            content == Join(stripped)
            begins == \E i \in DOMAIN licenses : startswith(content, licenses[i])
            marked == Contains(Join(Take(stripped, MAX_LICENSE_LINESPAN)), XFAIL_LICENSE)
        IN  /\ begins => ln_license = <<>>
            /\ (~begins /\ ~marked) => ln_license = <<Finding(1, "incorrect license")>>
            /\ Len(ln_license) <= 1

\* a checked file with an editor-mode line followed by the two-line license
C3_Witness ==
    /\ ln_pc # "license"
    /\ ~IsLicenseExempt(ln_name)
    /\ LnLines # <<>>
    /\ startswith(LnLines[1], EMACS_HEADER)
    /\ startswith(Join(StripHeaders(LnLines)), licenses[1])
    /\ Len(LnLines) > Len(StripHeaders(LnLines))
    /\ ln_license = <<>>

----------------------------------------------------------------------------
(* Claims about the dependency-lock rule (SpecLock).                       *)

LkChecked == lk_pc = "done" /\ endswith(lk_name, EXT_LOCK) /\ IsParsed(lk_content)

\* the versions of the manifest entries called n, in manifest order
EntryVersions(n) ==
    LET entries == SelectSeq(lk_content.package, LAMBDA p : p.name = n)
    IN  [i \in 1..Len(entries) |-> entries[i].version]

\* the lexicographically greatest of a non-empty sequence of versions
Greatest(vs) == CHOOSE v \in Range(vs) : \A w \in Range(vs) : ~StrLess(v, w)

FindingsFor(n) == SelectSeq(lk_out, LAMBDA e : e.package = n)

\* C4: for a .lock manifest, check_lock yields for each package name that is
\* not excepted and has more than one resolved version exactly one finding
\* per manifest entry whose version is not the highest, naming that version
\* as outdated and the lexicographically greatest one as highest; it yields
\* no finding for an excepted name or a name with a single entry.
C4_LockDuplicates ==
    LkChecked =>
        /\ \A e \in Range(lk_out) : e.package \in PackageNames(lk_content)
        /\ \A n \in PackageNames(lk_content) :
              LET vs == EntryVersions(n)
                  top == Greatest(vs)
                  outdated == SelectSeq(vs, LAMBDA v : v # top)
                  fs == FindingsFor(n)
              IN  IF n \in exceptions \/ Len(vs) <= 1
                  THEN fs = <<>>
                  ELSE /\ Len(fs) = Len(outdated)
                       /\ \A i \in DOMAIN fs :
                             /\ fs[i].line = 1
                             /\ fs[i].old_version = outdated[i]
                             /\ fs[i].new_version = top
        /\ (EntryVersions(FOO) \in {<<V1_0, V2_0>>, <<V2_0, V1_0>>})
              => /\ Len(FindingsFor(FOO)) = 1
                 /\ FindingsFor(FOO)[1].old_version = V1_0
                 /\ FindingsFor(FOO)[1].new_version = V2_0

\* "foo" at 2.0 and 1.0 beside an excepted name: one finding, for foo 1.0
C4_Witness ==
    /\ LkChecked
    /\ EntryVersions(FOO) = <<V2_0, V1_0>>
    /\ Len(EntryVersions(BITFLAGS)) = 1
    /\ Len(lk_out) = 1
    /\ lk_out[1].old_version = V1_0
    /\ lk_out[1].new_version = V2_0

\* the first two space-separated fields of a dependency entry are P and V
Pins(dep, P, V) ==
    \/ dep = P \o <<" ">> \o V
    \/ startswith(dep, P \o <<" ">> \o V \o <<" ">>)

Dependents(P, V) ==
    LET all == <<lk_content.root>> \o lk_content.package
    IN  {all[i].name : i \in {j \in DOMAIN all :
                                 \E k \in DOMAIN all[j].dependencies :
                                     Pins(all[j].dependencies[k], P, V)}}

\* C8: in a finding for package P at outdated version V the listed reverse
\* dependencies are exactly the packages (root or listed) whose dependency
\* list pins P at version V.
C8_ReverseDependencies ==
    LkChecked =>
        \A e \in Range(lk_out) :
            Range(e.reverse_dependencies) = Dependents(e.package, e.old_version)

----------------------------------------------------------------------------
(* Claims about the Rust rule (SpecRust).                                  *)

RsTrace == rs_st.trace

RsOut == rs_st.out

\* line n (1-based) has been read and analysed, not merged into a later line
Analysed(n) == n \in 1..Len(RsTrace) /\ ~RsTrace[n].skipped

\* ... and nothing of an earlier line was merged into it
OwnLine(n) == Analysed(n) /\ RsTrace[n].merged = strip(rs_lines[n])

IsUse(n) == Analysed(n) /\ startswith(RsTrace[n].line, USE_SP)
IsCrate(n) == Analysed(n) /\ startswith(RsTrace[n].line, EXTERN_CRATE)
IsMod(n) ==
    Analysed(n) /\ (startswith(RsTrace[n].line, MOD_SP) \/ startswith(RsTrace[n].line, PUB_MOD_SP))
IsBlank(n) == Analysed(n) /\ RsTrace[n].merged = <<>>
IsCommentOrAttribute(n) ==
    Analysed(n) /\ (line_is_comment(RsTrace[n].merged) \/ line_is_attribute(RsTrace[n].merged))

\* the declared name: the text between the keyword and the last character
UseName(n) == SliceInner(RsTrace[n].line, 4)
CrateName(n) == SliceInner(RsTrace[n].line, 13)
ModName(n) ==
    IF startswith(RsTrace[n].line, MOD_SP) THEN SliceInner(RsTrace[n].line, 4)
    ELSE SliceInner(RsTrace[n].line, 8)

\* leading and trailing whitespace of a raw line (the terminator is trailing)
Lead(l) == IF strip(l) = <<>> THEN Len(l) ELSE find(l, strip(l))
Trail(l) == Len(l) - Lead(l) - Len(strip(l))

SameLayout(m, n) ==
    Lead(rs_lines[m]) = Lead(rs_lines[n]) /\ Trail(rs_lines[m]) = Trail(rs_lines[n])

OrderFindingsAt(n, kind) ==
    SelectSeq(RsOut, LAMBDA e : e.msg = "is not in alphabetical order"
                                  /\ e.kind = kind /\ e.line = n)

Flagged(n, kind) == OrderFindingsAt(n, kind) # <<>>

USE_B_X == <<"u", "s", "e", " ", "b", ":", ":", "x", ";">>
USE_A_Y == <<"u", "s", "e", " ", "a", ":", ":", "y", ";">>
B_X == <<"b", ":", ":", "x">>
A_Y == <<"a", ":", ":", "y">>

\* "use b::x;" on line i directly followed by "use a::y;", same indentation
PairBA(i) ==
    /\ OwnLine(i) /\ OwnLine(i + 1)
    /\ strip(rs_lines[i]) = USE_B_X /\ strip(rs_lines[i + 1]) = USE_A_Y
    /\ Lead(rs_lines[i]) = Lead(rs_lines[i + 1])

PairAB(i) ==
    /\ OwnLine(i) /\ OwnLine(i + 1)
    /\ strip(rs_lines[i]) = USE_A_Y /\ strip(rs_lines[i + 1]) = USE_B_X
    /\ Lead(rs_lines[i]) = Lead(rs_lines[i + 1])

\* C5 as stated: "use b::x;" directly followed by "use a::y;" at the same
\* indentation yields exactly one ordering finding, citing expected "a::y"
\* and found "b::x"; in the opposite order no ordering finding is yielded.
C5_AsStated ==
    \A i \in 1..Len(rs_lines) :
        /\ PairBA(i) => /\ Len(OrderFindingsAt(i + 1, "use statement")) = 1
                        /\ OrderFindingsAt(i + 1, "use statement")[1].expected = A_Y
                        /\ OrderFindingsAt(i + 1, "use statement")[1].found = B_X
        /\ PairAB(i) => ~Flagged(i + 1, "use statement")

\* C5 amended: an ordering finding for the pair is anchored at the second
\* line and cites expected "b::x" (the preceding declaration) and found
\* "a::y" (the current one), and there is at most one; when the first line
\* opens the file or directly follows another use line, exactly one is
\* yielded if both lines have the same line ending and none if they differ
\* (the second line is the unterminated last line of the file); in the
\* opposite order none is yielded.
C5_ImportOrder ==
    \A i \in 1..Len(rs_lines) :
        /\ PairBA(i) =>
              LET fs == OrderFindingsAt(i + 1, "use statement")
              IN  /\ Len(fs) <= 1
                  /\ \A k \in DOMAIN fs : fs[k].expected = B_X /\ fs[k].found = A_Y
                  /\ (i = 1 \/ IsUse(i - 1)) => (Len(fs) = 1 <=> SameLayout(i, i + 1))
        /\ PairAB(i) => ~Flagged(i + 1, "use statement")

\* the file "use b::x;\nuse a::y;\n" read to its end: one finding, on line 2
C5_Witness ==
    /\ rs_pc = "done"
    /\ Len(rs_lines) = 2
    /\ PairBA(1)
    /\ SameLayout(1, 2)
    /\ Len(RsOut) = 1
    /\ RsOut[1].line = 2
    /\ RsOut[1].expected = B_X
    /\ RsOut[1].found = A_Y

\* the last line before n that was analysed (0 when there is none)
PrevAnalysed(n) ==
    LET before == {m \in 1..(n - 1) : Analysed(m)}
    IN  IF before = {} THEN 0 ELSE Max(before)

\* an analysed line that ends an import block: not blank, not a comment,
\* not an attribute, not a use
IsInterruption(m) ==
    Analysed(m) /\ ~IsBlank(m) /\ ~IsCommentOrAttribute(m) /\ ~IsUse(m)

IsKind(n, kind) ==
    CASE kind = "use statement" -> IsUse(n)
      [] kind = "extern crate declaration" -> IsCrate(n)
      [] kind = "mod declaration" -> IsMod(n)

NameOf(n, kind) ==
    CASE kind = "use statement" -> UseName(n)
      [] kind = "extern crate declaration" -> CrateName(n)
      [] kind = "mod declaration" -> ModName(n)

Kinds == {"use statement", "extern crate declaration", "mod declaration"}

\* lines i and i + 1 are declarations of one kind at one indentation
Adjacent(i, kind) ==
    IsKind(i, kind) /\ IsKind(i + 1, kind) /\ RsTrace[i].indent = RsTrace[i + 1].indent

\* C9 as stated, for a declaration directly below one of its kind at the same
\* indentation: it is flagged exactly when it is not strictly greater than
\* that predecessor (so an equal declaration is flagged).
C9_AsStated ==
    \A kind \in Kinds : \A i \in 1..Len(rs_lines) :
        (Adjacent(i, kind) /\ OwnLine(i) /\ OwnLine(i + 1) /\ i = 1)
            => (Flagged(i + 1, kind) <=> ~StrLess(NameOf(i, kind), NameOf(i + 1, kind)))

\* C9 amended.  (1) A declaration is flagged only when it is strictly less
\* than an earlier declaration of its kind, which the finding cites as
\* expected; an equal declaration is not flagged; a line gets at most one
\* ordering finding per kind.  (2) A declaration directly below one of its
\* kind at the same indentation is flagged exactly when it is strictly less
\* than it (for use: when that predecessor opens the file or itself follows a
\* use; for mod: when neither line follows a #[macro_use] line).  (3) A mod
\* declaration whose preceding analysed line is not a mod declaration, or
\* whose preceding line holds #[macro_use], is never flagged.  (4) A use
\* declaration that is the first after an interrupting statement is not
\* flagged, unless it is an unindented, unterminated last line.  (5) An
\* extern crate declaration is flagged exactly when it is strictly less than
\* the latest earlier extern crate declaration of its indentation, whatever
\* lies between them.
C9_DeclarationOrder ==
    /\ \A e \in Range(RsOut) :
          e.msg = "is not in alphabetical order" =>
              /\ IsKind(e.line, e.kind)
              /\ e.found = NameOf(e.line, e.kind)
              /\ StrLess(e.found, e.expected)
              /\ \E m \in 1..(e.line - 1) : IsKind(m, e.kind) /\ NameOf(m, e.kind) = e.expected
    /\ \A kind \in Kinds : \A n \in 1..Len(RsTrace) : Len(OrderFindingsAt(n, kind)) <= 1
    /\ \A i \in 1..Len(rs_lines) :
          /\ (Adjacent(i, "use statement") /\ (i = 1 \/ IsUse(i - 1)))
                => (Flagged(i + 1, "use statement") <=> StrLess(UseName(i + 1), UseName(i)))
          /\ (/\ Adjacent(i, "mod declaration")
              /\ ~Contains(rs_lines[i], MACRO_USE)
              /\ (i = 1 \/ ~Contains(rs_lines[i - 1], MACRO_USE)))
                => (Flagged(i + 1, "mod declaration") <=> StrLess(ModName(i + 1), ModName(i)))
    /\ \A n \in 1..Len(RsTrace) :
          /\ (IsMod(n) /\ (~IsMod(PrevAnalysed(n)) \/ (n > 1 /\ Contains(rs_lines[n - 1], MACRO_USE))))
                => ~Flagged(n, "mod declaration")
          /\ (IsUse(n) /\ IsInterruption(PrevAnalysed(n)) /\ RsTrace[n].indent # 0)
                => ~Flagged(n, "use statement")
          /\ IsCrate(n) =>
                LET earlier == {m \in 1..(n - 1) : IsCrate(m) /\ RsTrace[m].indent = RsTrace[n].indent}
                IN  Flagged(n, "extern crate declaration")
                        <=> (earlier # {} /\ StrLess(CrateName(n), CrateName(Max(earlier))))

\* "use b::x;", "use a::y;", "use a::y;": line 2 is flagged, the equal line 3 is not
C9_Witness ==
    /\ rs_pc = "done"
    /\ Len(rs_lines) = 3
    /\ Adjacent(1, "use statement") /\ Adjacent(2, "use statement")
    /\ UseName(1) = B_X /\ UseName(2) = A_Y /\ UseName(3) = A_Y
    /\ Flagged(2, "use statement")
    /\ ~Flagged(3, "use statement")

\* an extern crate declaration flagged across an interrupting statement
C9_WitnessCrate ==
    /\ rs_pc = "done"
    /\ IsCrate(1) /\ IsInterruption(2) /\ IsCrate(3)
    /\ Flagged(3, "extern crate declaration")

\* a blank line of the import block: one before line j, after the use on line i
Gap(i, j) ==
    /\ i + 1 < j
    /\ IsUse(i) /\ IsUse(j)
    /\ \A m \in (i + 1)..(j - 1) : IsBlank(m)

GapFindings == SelectSeq(RsOut, LAMBDA e : e.msg = "encountered whitespace following a use statement")

\* C10: a use statement followed by one or more blank lines and then directly
\* by another use statement yields exactly one "encountered whitespace"
\* finding for the gap, anchored at the line directly before the second use;
\* such a finding is yielded only before a use statement that is separated
\* from the preceding use statement by at least one blank line and otherwise
\* only comment, attribute or merged lines: not after an interrupting
\* statement, and not between two use statements with no blank line.
C10_BlankInImportBlock ==
    /\ \A i, j \in 1..Len(RsTrace) :
          Gap(i, j) => Len(SelectSeq(GapFindings, LAMBDA e : e.line \in i..j)) = 1
                       /\ \E k \in DOMAIN GapFindings : GapFindings[k].line = j - 1
    /\ \A e \in Range(GapFindings) :
          /\ IsUse(e.line + 1)
          /\ \E u \in 1..(e.line - 1) :
                /\ IsUse(u)
                /\ \E b \in (u + 1)..e.line : IsBlank(b)
                /\ \A m \in (u + 1)..e.line : ~Analysed(m) \/ IsBlank(m) \/ IsCommentOrAttribute(m)

\* "use b::x;", a blank line, "use a::y;": one finding, anchored at line 2
C10_Witness ==
    /\ rs_pc = "done"
    /\ Len(rs_lines) = 3
    /\ Gap(1, 3)
    /\ Len(GapFindings) = 1
    /\ GapFindings[1].line = 2

----------------------------------------------------------------------------
(* Claims about scan (SpecScan).                                           *)

\* what a rule yields for a file, read off the rules themselves
ScYields(f, check) ==
    LET lines == splitlines(f.contents, TRUE)
    IN  CASE check = "check_flake8" -> check_flake8(f.name, f.flake8)
          [] check = "check_lock" ->
                 IF endswith(f.name, EXT_LOCK) /\ IsParsed(f.toml)
                 THEN check_lock(f.name, f.toml,
                                 CHOOSE o \in IterOrders(PackageNames(f.toml)) : TRUE).out
                 ELSE <<>>
          [] check = "check_webidl_spec" -> check_webidl_spec(f.name, f.contents)
          [] check = "check_json" -> check_json(f.name, f.json).out
          [] check = "check_license" -> check_license(f.name, lines)
          [] check = "check_by_line" -> check_by_line(f.name, lines)
          [] check = "check_toml" -> check_toml(f.name, lines)
          [] check = "check_rust" -> check_rust(f.name, lines)
          [] check = "check_spec" -> check_spec(f.name, lines)

\* the rules in the order the specification lists them
RuleOrder ==
    <<"check_flake8", "check_lock", "check_webidl_spec", "check_json",
      "check_license", "check_by_line", "check_toml", "check_rust", "check_spec">>

Rank(check) == CHOOSE k \in DOMAIN RuleOrder : RuleOrder[k] = check

\* some rule has a finding for some file, or the WPT lint has one
SomeFinding ==
    \/ \E i \in DOMAIN sc_files : \E k \in DOMAIN RuleOrder :
          ScYields(sc_files[i], RuleOrder[k]) # <<>>
    \/ sc_lint # 0

\* C1: when scan has returned, it has returned 0 exactly when no rule and
\* not the WPT lint produced a finding (the stream printed is empty), and 1
\* exactly when at least one finding was produced; the success message has
\* been printed exactly when 0 was returned, and never before the return.
C1_ExitStatus ==
    /\ sc_pc = "done" =>
          /\ sc_ret \in {0, 1}
          /\ sc_ret = 0 <=> ~SomeFinding
          /\ sc_ret = 0 <=> sc_stream = <<>>
          /\ sc_ret = 1 <=> Len(sc_stream) >= 1
          /\ sc_success <=> sc_ret = 0
    /\ sc_success => sc_pc = "done"

\* two files have been checked, a rule found something, the lint did not,
\* and scan returned 1 without the success message
C1_Witness ==
    /\ sc_pc = "done"
    /\ Len(sc_files) = 2
    /\ sc_lint = 0
    /\ Len(sc_stream) >= 1
    /\ sc_ret = 1
    /\ ~sc_success

\* two files have been checked without a finding and scan returned 0
C1_WitnessSuccess ==
    /\ sc_pc = "done"
    /\ Len(sc_files) = 2
    /\ sc_stream = <<>>
    /\ sc_ret = 0
    /\ sc_success

IsWpt(o) == o.check = "check_wpt_lint_errors"

\* C6: at every moment the errors printed so far are in file discovery
\* order, and within one file in the order flake8, lock, webidl, json,
\* license, by-line, toml, rust, spec; an error of the WPT lint has no error
\* after it; and every printed error is one its rule yields for its file.
C6_StreamOrder ==
    /\ Len(sc_origin) = Len(sc_stream)
    /\ \A p \in DOMAIN sc_stream :
          IF IsWpt(sc_origin[p])
          THEN sc_stream[p] = WptFinding(sc_lint) /\ p = Len(sc_stream)
          ELSE /\ sc_origin[p].file \in DOMAIN sc_files
               /\ sc_stream[p].file = sc_files[sc_origin[p].file].name
               /\ \E k \in DOMAIN ScYields(sc_files[sc_origin[p].file], sc_origin[p].check) :
                     ScYields(sc_files[sc_origin[p].file], sc_origin[p].check)[k]
                         = sc_stream[p].error
    /\ \A p, q \in DOMAIN sc_stream :
          (p < q /\ ~IsWpt(sc_origin[q])) =>
              /\ ~IsWpt(sc_origin[p])
              /\ \/ sc_origin[p].file < sc_origin[q].file
                 \/ /\ sc_origin[p].file = sc_origin[q].file
                    /\ Rank(sc_origin[p].check) <= Rank(sc_origin[q].check)

\* scan has returned after printing, for each of two files, an error of a
\* whole-file rule and an error of a line rule, and then the lint's error
C6_Witness ==
    /\ sc_pc = "done"
    /\ Len(sc_files) = 2
    /\ \A i \in 1..2 :
          \E p, q \in DOMAIN sc_stream :
             /\ sc_origin[p].file = i /\ sc_origin[q].file = i
             /\ Rank(sc_origin[p].check) <= 4
             /\ ~IsWpt(sc_origin[q]) /\ Rank(sc_origin[q].check) >= 5
    /\ IsWpt(sc_origin[Len(sc_origin)])

\* the file holds structured data its rule cannot parse
Malformed(f) ==
    \/ endswith(f.name, EXT_JSON) /\ ~f.json.ok
    \/ endswith(f.name, EXT_LOCK) /\ ~IsParsed(f.toml)

OwningRule(f) == IF endswith(f.name, EXT_JSON) THEN "check_json" ELSE "check_lock"

\* every rule has been applied to the file at index i
Checked(i) == sc_file > i \/ (sc_file = i /\ sc_pc \in {"next", "wpt", "return", "done"})

\* C7 as stated: the scan is never aborted, and once scan has returned
\* every malformed .json or .lock file has an error of its owning rule in
\* the stream and every file discovered after it has been checked.
C7_ParseFailures ==
    /\ sc_pc # "aborted"
    /\ sc_pc = "done" =>
          \A i \in DOMAIN sc_files :
             Malformed(sc_files[i]) =>
                /\ \E p \in DOMAIN sc_stream :
                      sc_origin[p] = [file |-> i, check |-> OwningRule(sc_files[i])]
                /\ \A j \in (i + 1)..Len(sc_files) : Checked(j)

\* the half of C7 that holds: a malformed .json file has an error of
\* check_json in the stream as soon as check_json has been applied to it,
\* and check_json lets nothing escape
C7_JsonHalf ==
    \A i \in DOMAIN sc_files :
       (endswith(sc_files[i].name, EXT_JSON) /\ ~sc_files[i].json.ok
            /\ (sc_file > i \/ (sc_file = i /\ (sc_pc # "check" \/ sc_check > Rank("check_json"))))) =>
          \E p \in DOMAIN sc_stream : sc_origin[p] = [file |-> i, check |-> "check_json"]

\* the scan is aborted at a malformed .lock file with a file left unchecked
C7_Aborted ==
    /\ sc_pc = "aborted"
    /\ Malformed(sc_files[sc_file])
    /\ sc_file < Len(sc_files)

----------------------------------------------------------------------------
(* Claims about the documentation-link rule (SpecLink).                    *)

SpOut == sp_st.out

\* the line, leading whitespace aside, begins a // comment
SpLineComment(i) == startswith(strip(sp_lines[i]), <<"/", "/">>)

\* the first whitespace-delimited word of the line
FirstWord(line) ==
    LET t == strip(line)
        ws == {k \in 1..Len(t) : t[k] \in Whitespace}
    IN  IF ws = {} THEN t ELSE SubSeq(t, 1, (CHOOSE k \in ws : \A j \in ws : k <= j) - 1)

\* the line declares a function or invokes a macro
SpDeclares(i) ==
    \/ Contains(sp_lines[i], FN_SP)
    \/ \E k \in 2..Len(FirstWord(sp_lines[i])) : FirstWord(sp_lines[i])[k] = "!"

SpMarker(i) == Contains(sp_lines[i], NO_SPECS_AFTER)

\* the line is the header of the impl block of the file's Methods trait
SpHeader(i) ==
    /\ ~SpLineComment(i)
    /\ ~SpMarker(i)
    /\ Contains(lower(sp_lines[i]), lower(SpPattern))

SpRead(i) == i \in 1..Len(sp_trace)

\* the tracked depth after line i has been read
DepthAfter(i) == IF i < Len(sp_trace) THEN sp_trace[i + 1].brace_count ELSE sp_st.brace_count

\* line i closes the impl block: inside it, a closing brace brings the depth from 1 to 0
SpCloses(i) ==
    /\ SpRead(i)
    /\ ~SpLineComment(i)
    /\ ~SpMarker(i)
    /\ sp_trace[i].in_impl \/ SpHeader(i)
    /\ Contains(sp_lines[i], <<"}">>)
    /\ sp_trace[i].brace_count + (IF Contains(sp_lines[i], <<"{">>) THEN 1 ELSE 0) = 1

\* C11: every finding of check_spec is for a line that is not a comment,
\* declares a function or invokes a macro, and is read at tracked brace
\* depth 1 inside the impl block; a line has at most one finding; the
\* tracked depth is never negative and is at least 1 after the impl header
\* has been read; and no finding is at or before the header, at or after a
\* marker line, or after the line that closes the impl block.
C11_SpecLinks ==
    /\ sp_st.brace_count >= 0
    /\ \A i \in 1..Len(sp_trace) :
          /\ sp_trace[i].brace_count >= 0
          /\ (SpHeader(i) /\ \A j \in 1..i : ~SpMarker(j)) =>
                \A k \in i..Len(sp_trace) : DepthAfter(k) >= 1
    /\ \A p, q \in DOMAIN SpOut : p < q => SpOut[p].line < SpOut[q].line
    /\ \A p \in DOMAIN SpOut :
          LET i == SpOut[p].line
          IN  /\ SpRead(i)
              /\ ~SpLineComment(i)
              /\ SpDeclares(i)
              /\ sp_trace[i].brace_count = 1
              /\ sp_trace[i].in_impl
              /\ \E h \in 1..(i - 1) : SpHeader(h)
              /\ \A j \in 1..i : ~SpMarker(j)
              /\ \A j \in 1..(i - 1) : ~SpCloses(j)

\* a file of four lines has been read to the line that closes the impl
\* block, with one finding for a declaration inside the block
C11_Witness ==
    /\ sp_pc = "done"
    /\ Len(sp_lines) = 4
    /\ Len(SpOut) = 1
    /\ SpHeader(1)
    /\ SpCloses(4)
    /\ DepthAfter(2) = 2

\* a finding for a macro invocation, and none for the declaration that
\* follows a marker line
C11_WitnessMarker ==
    /\ sp_pc = "done"
    /\ Len(SpOut) = 1
    /\ ~Contains(sp_lines[SpOut[1].line], FN_SP)
    /\ \E j \in DOMAIN sp_lines :
          /\ SpMarker(j)
          /\ j < Len(sp_lines)
          /\ Contains(sp_lines[j + 1], FN_SP)

----------------------------------------------------------------------------
(* Claims about file discovery (SpecFilter).                               *)

\* the directories the file is in, outermost first, as paths from "."
Ancestors(path) == {Take(path, k - 1) : k \in {i \in 3..Len(path) : path[i] = "/"}}

\* the file is in an ignored directory or below one; the entry "./." stands
\* for the hidden directories
UnderIgnoredDir(path) ==
    \E d \in Ancestors(path) :
       \/ \E i \in DOMAIN ignored_dirs : d = ignored_dirs[i]
       \/ startswith(d, <<".", "/", ".">>)

LastPart(path) == PathParts(path)[Len(PathParts(path))]

IncludedName(name) ==
    \/ name = <<"C", "a", "r", "g", "o", ".", "l", "o", "c", "k">>
    \/ \E ext \in {<<".", "r", "s">>, <<".", "r", "c">>, <<".", "c", "p", "p">>, <<".", "c">>,
                   <<".", "h">>, <<".", "p", "y">>, <<".", "t", "o", "m", "l">>,
                   <<".", "w", "e", "b", "i", "d", "l">>, <<".", "j", "s", "o", "n">>} : endswith(name, ext)

IgnoredName(name) == Contains(name, <<".", "#">>) \/ endswith(name, <<".", "p", "y", "c">>)

IgnoredFilePrefix(path) ==
    \E i \in DOMAIN ignored_files : Take(path, Len(ignored_files[i])) = ignored_files[i]

\* every name yielded passes the name filters
WellFiltered ==
    \A k \in DOMAIN ff_yielded :
       /\ IncludedName(LastPart(ff_yielded[k]))
       /\ ~IgnoredFilePrefix(ff_yielded[k])
       /\ ~IgnoredName(LastPart(ff_yielded[k]))

\* C12 as stated: in either mode no name filter_files yields is of a file
\* under an ignored directory, and every name yielded has an included base
\* name, no ignored-file prefix and no ignored base name.
C12_AsStated ==
    /\ \A k \in DOMAIN ff_yielded : ~UnderIgnoredDir(ff_yielded[k])
    /\ WellFiltered

\* the parts of C12 that hold: the walk of the default mode never yields a
\* file under an ignored directory, and the name filters hold in both modes
C12_DefaultMode ==
    /\ ~ff_faster => \A k \in DOMAIN ff_yielded : ~UnderIgnoredDir(ff_yielded[k])
    /\ WellFiltered

\* with only the changed files asked for, a file under an ignored directory
\* has been yielded
C12_ChangedIgnored ==
    /\ ff_pc = "done"
    /\ ff_faster
    /\ \E k \in DOMAIN ff_yielded : UnderIgnoredDir(ff_yielded[k])

\* the default mode has listed a file of a tree that also holds a file under
\* an ignored directory
C12_DefaultPruned ==
    /\ ff_pc = "done"
    /\ ~ff_faster
    /\ Len(ff_yielded) >= 1
    /\ \E path \in ff_tree : UnderIgnoredDir(path) /\ IncludedName(LastPart(path))

----------------------------------------------------------------------------
(* Claims about the whitespace rule (SpecLine).                            *)

NoNewlineFindings == SelectSeq(ln_by_line, LAMBDA e : e.msg = "no newline at EOF")

\* C13 as stated: every "no newline at EOF" finding of check_by_line is for
\* the last line of the file, and is yielded only when the content of the
\* file does not end with a newline.
C13_AsStated ==
    ln_pc = "done" =>
        \A k \in DOMAIN NoNewlineFindings :
           /\ NoNewlineFindings[k].line = Len(LnLines)
           /\ ln_contents[Len(ln_contents)] # "\n"

\* what holds instead: the lines with the finding are the lines that do not
\* end with a newline, and such a line is the last one or ends at a lone
\* carriage return
C13_UnterminatedLines ==
    ln_pc = "done" =>
        /\ {NoNewlineFindings[k].line : k \in DOMAIN NoNewlineFindings}
               = {i \in DOMAIN LnLines : LnLines[i][Len(LnLines[i])] # "\n"}
        /\ \A k \in DOMAIN NoNewlineFindings :
              \/ NoNewlineFindings[k].line = Len(LnLines)
              \/ endswith(LnLines[NoNewlineFindings[k].line], <<"\r">>)

\* a file that ends with a newline has the finding for its first line, which
\* ends at a carriage return
C13_MidFile ==
    /\ ln_pc = "done"
    /\ Len(LnLines) >= 2
    /\ ln_contents[Len(ln_contents)] = "\n"
    /\ \E k \in DOMAIN NoNewlineFindings : NoNewlineFindings[k].line = 1

----------------------------------------------------------------------------
(* Claims about the block-comment counter of check_rust (SpecRust).        *)

\* occurrences of the opening token minus occurrences of the closing token
\* on lines 1..n
RECURSIVE CommentBalance(_)
CommentBalance(n) ==
    IF n = 0 THEN 0
    ELSE CommentBalance(n - 1) + count(strip(rs_lines[n]), <<"/", "*">>)
                               - count(strip(rs_lines[n]), <<"*", "/">>)

\* C14 as stated: comment_depth is never negative, and a line read when
\* every block comment opened so far has been closed, and that does not end
\* in a continuation backslash, is analysed.
C14_AsStated ==
    /\ rs_st.comment_depth >= 0
    /\ \A n \in 1..Len(RsTrace) :
          (CommentBalance(n) <= 0 /\ ~endswith(strip(rs_lines[n]), <<"\\">>)) => Analysed(n)

\* what holds instead: comment_depth is the balance of the tokens read, of
\* either sign, and a line is analysed exactly when the balance is zero and
\* the line does not end in a continuation backslash
C14_DepthIsBalance ==
    /\ rs_pc = "loop" => rs_st.comment_depth = CommentBalance(Len(RsTrace))
    /\ \A n \in 1..Len(RsTrace) :
          Analysed(n) <=> (CommentBalance(n) = 0 /\ ~endswith(strip(rs_lines[n]), <<"\\">>))

\* a closing token without an opening one has made comment_depth negative
\* and the use line after it has been skipped
C14_Negative ==
    /\ rs_pc = "done"
    /\ Len(rs_lines) = 3
    /\ CommentBalance(1) < 0
    /\ \A n \in 2..3 : startswith(rs_lines[n], USE_SP) /\ ~Analysed(n)
    /\ RsOut = <<>>

=============================================================================
